---- MODULE Spec2Model ----
(***************************************************************************)
(* A model of progbg's execution-matrix engine:                            *)
(*   - util.Variables (constructor checks, produce_args, y_names),         *)
(*   - core.compose_backends / core.registerbackend / core.NullBackend,    *)
(*   - core.Execution (__init__, out_file, execute).                       *)
(*                                                                         *)
(* Python values are modelled as follows.                                  *)
(*   str   : a sequence of one-character strings, so that format, join and *)
(*           split act on characters;                                      *)
(*   names of parameters (dict keys) : TLA+ strings;                       *)
(*   dict  : a function from a set of keys;                                *)
(*   list / tuple : a sequence;                                            *)
(*   a value swept by a Variables : a record that says whether it is an    *)
(*           int or a str (IntV, StrV).                                    *)
(* An exception raised by a Python call ends the handler it escapes from:  *)
(* no handler of the modelled code has a try block.                        *)
(***************************************************************************)
EXTENDS Integers, Sequences, FiniteSets, TLC

VARIABLES
    v_consts,   \* Variables spec: the `consts` argument / self.consts
    v_var,      \* Variables spec: the `var` argument / self.var
    v_state,    \* "declared", "ok" (constructed) or "raised" (__init__ raised)
    v_results,  \* the lists returned by the calls of produce_args(), in call order
    c_members,  \* compose spec: the classes given to compose_backends, in order
    c_kwargs,   \* compose spec: the keyword arguments given to the composed start
    c_hist,     \* compose spec: the calls of the composed start / uninit made so far
    cfg,        \* the arguments of Execution(benchmark, backends, parser, out)
    ex,         \* the Execution object: self.backends and self.name
    pc,         \* where the program is: "declared", "constructed", "init_raised",
                \* "start", "run", "uninit" (inside execute()), "done", "raised";
                \* "plan_parse" when the plan made a ParseExecution instead
    bi,         \* execute(): index of `back` in self.backends
    ai,         \* execute(): index of `arg_set` in args
    ci,         \* execute(): index of `ba` in bench_args
    it,         \* execute(): `iteration`
    calls,      \* the calls execute() has made: start, run, uninit
    mcalls,     \* the calls made on the member classes of composed backends
    cached,     \* self._cached: val, and set = FALSE while it is None
    pcalls,     \* the paths the last call of parse() handed to the parser
    np,         \* the number of calls of parse() made
    plast,      \* how the last call of parse() ended: "none" (no call yet),
                \* "cached" (returned on the cache), "returned" or "raised"
    s_in,       \* storage specs: what is stored and asked (directory or rows,
                \* restriction, record)
    s_out,      \* storage specs: what the call returned
    s_state     \* storage specs: "ready", then how the call ended

varsV == <<v_consts, v_var, v_state, v_results>>
varsC == <<c_members, c_kwargs, c_hist>>
varsE == <<cfg, ex, pc, bi, ai, ci, it, calls, mcalls>>
varsP == <<cached, pcalls, np, plast>>
varsS == <<s_in, s_out, s_state>>
vars == <<varsV, varsC, varsE, varsP, varsS>>

----------------------------------------------------------------------------
(* Bounds of the model. *)

MaxRange == 2    \* longest range swept by one varying name
MaxVars == 2     \* most varying names in one Variables
MaxCalls == 2    \* most calls of produce_args() on one Variables
MaxMembers == 2  \* most classes given to one compose_backends
MaxComposedCalls == 2  \* most calls of one composed backend's start / uninit
MaxBackends == 2 \* most backends given to one Execution
MaxIter == 2     \* most iterations of one benchmark
MaxParse == 2    \* most calls of parse() on one Execution
MaxFailAt == 2   \* the parser may raise at any of its first MaxFailAt calls
MaxFiles == 2    \* most files in the directory given to plan_parse
MaxFlatFiles == 2 \* most files in the out directory of the flat-file reads
MaxRows == 2     \* most rows in the table of the database

----------------------------------------------------------------------------
(* Python values. *)

IntV(n) == [kind |-> "int", n |-> n, s |-> <<>>]
StrV(s) == [kind |-> "str", n |-> 0, s |-> s]

DigitChar == <<"0", "1", "2", "3", "4", "5", "6", "7", "8", "9">>

RECURSIVE Dec(_)
\* str(n) of a natural number: its decimal digits.
Dec(n) ==
    IF n < 10 THEN <<DigitChar[n + 1]>>
    ELSE Dec(n \div 10) \o <<DigitChar[(n % 10) + 1]>>

\* "{}".format(v): the text of a swept value.
Str(v) == IF v.kind = "int" THEN Dec(v.n) ELSE v.s

\* dict d after d[k] = v.
DictSet(d, k, v) == [n \in (DOMAIN d) \cup {k} |-> IF n = k THEN v ELSE d[n]]

\* A Python object compared with ==: objects of different types are unequal.
TupleObj(t) == [type |-> "tuple", val |-> t]
StrObj(s) == [type |-> "str", val |-> s]
PyEq(a, b) == a.type = b.type /\ a.val = b.val
\* `o in lst` for a list of objects.
PyIn(o, lst) == \E i \in 1..Len(lst) : PyEq(o, lst[i])

----------------------------------------------------------------------------
(* globals.py *)

_sb_rnames == <<"_backend", "_execution_name", "_iter", "_workload">>

----------------------------------------------------------------------------
(* util.Variables *)

\* A Variables object: consts is a dict, var a list of (name, range) tuples.
Variables(consts, var) == [consts |-> consts, var |-> var]

\* The loop of __init__ over var: some varying name is a key of consts.
OverlapCheckFirstOnly(consts, var) == var[1][1] \in DOMAIN consts
OverlapCheck(consts, var) == \E j \in 1..Len(var) : var[j][1] \in DOMAIN consts

\* Variables.__init__: TRUE when it raises. Nothing is checked when var is
\* empty; var[0] is a (name, range) tuple, which the code looks up in the list
\* of reserved names.
VariablesRaises(consts, var) ==
    IF Len(var) > 0
    THEN \/ \E i \in 1..Len(_sb_rnames) : _sb_rnames[i] \in DOMAIN consts
         \/ PyIn(TupleObj(var[1]), [i \in 1..Len(_sb_rnames) |-> StrObj(_sb_rnames[i])])
         \/ OverlapCheck(consts, var)
    ELSE FALSE

\* Variables.y_names
y_names(self) == [j \in 1..Len(self.var) |-> self.var[j][1]]

\* One round of itertools.product: result = [x + [y] for x in result for y in pool]
ProductStepZip(result, pool) ==
    [i \in 1..(IF Len(result) < Len(pool) THEN Len(result) ELSE Len(pool)) |->
        result[i] \o <<pool[i]>>]
ProductStep(result, pool) ==
    [i \in 1..(Len(result) * Len(pool)) |->
        result[((i - 1) \div Len(pool)) + 1] \o <<pool[((i - 1) % Len(pool)) + 1]>>]

RECURSIVE ProductFrom(_, _)
ProductFrom(result, pools) ==
    IF pools = <<>> THEN result
    ELSE ProductFrom(ProductStep(result, pools[1]), Tail(pools))

\* itertools.product(*ranges): result starts as [[]] and takes the pools left to right.
ProductReversed(ranges) ==
    LET n == Len(ranges)
        rev == ProductFrom(<< <<>> >>, [j \in 1..n |-> ranges[n + 1 - j]])
    IN  [i \in 1..Len(rev) |-> [j \in 1..n |-> rev[i][n + 1 - j]]]
Product(ranges) == ProductFrom(<< <<>> >>, ranges)

RECURSIVE RunVars(_, _, _, _)
\* run_vars = dict(self.consts); for i, k in enumerate(key_names): run_vars[k] = perm[i]
RunVars(run_vars, key_names, perm, i) ==
    IF i > Len(key_names) THEN run_vars
    ELSE RunVars(DictSet(run_vars, key_names[i], perm[i]), key_names, perm, i + 1)

\* Variables.produce_args
produce_args(self) ==
    IF Len(self.var) = 0 THEN << self.consts >>
    ELSE LET key_names == [j \in 1..Len(self.var) |-> self.var[j][1]]
             ranges == [j \in 1..Len(self.var) |-> self.var[j][2]]
             perms == Product(ranges)
         IN  [i \in 1..Len(perms) |-> RunVars(self.consts, key_names, perms[i], 1)]

----------------------------------------------------------------------------
(* The inputs of the Variables specification. *)

\* Parameter names a plan may use, the reserved name "_iter" among them.
VarNamePool == {"x", "y", "_iter"}
ConstValue == IntV(7)

\* The ranges a plan sweeps are Python range objects: range(0, n) and
\* range(n - 1, -1, -1).
Ranges ==
    {[i \in 1..n |-> IntV(i - 1)] : n \in 0..MaxRange}
        \cup {[i \in 1..n |-> IntV(n - i)] : n \in 0..MaxRange}

\* Lists of (name, range) tuples naming pairwise different parameters.
VarLists(names, maxVars) ==
    UNION {{var \in [1..k -> names \X Ranges] :
                \A i, j \in 1..k : i # j => var[i][1] # var[j][1]} : k \in 0..maxVars}

ConstDicts(names) == UNION {[S -> {ConstValue}] : S \in SUBSET names}

----------------------------------------------------------------------------
(* The Variables specification: construct one Variables, then call          *)
(* produce_args() on it.                                                    *)

\* The variables of the other specifications, unused.
IdleVariables ==
    /\ v_consts = <<>>
    /\ v_var = <<>>
    /\ v_state = "unused"
    /\ v_results = <<>>
IdleCompose ==
    /\ c_members = <<>>
    /\ c_kwargs = <<>>
    /\ c_hist = <<>>
IdleExecution ==
    /\ cfg = <<>>
    /\ ex = <<>>
    /\ pc = "unused"
    /\ bi = 0
    /\ ai = 0
    /\ ci = 0
    /\ it = 0
    /\ calls = <<>>
    /\ mcalls = <<>>
    /\ cached = <<>>
    /\ pcalls = <<>>
    /\ np = 0
    /\ plast = "unused"

IdleStorage ==
    /\ s_in = <<>>
    /\ s_out = <<>>
    /\ s_state = "unused"

InitVariables ==
    /\ v_consts \in ConstDicts(VarNamePool)
    /\ v_var \in VarLists(VarNamePool, MaxVars)
    /\ v_state = "declared"
    /\ v_results = <<>>
    /\ IdleCompose
    /\ IdleExecution
    /\ IdleStorage

\* Variables(consts, var)
Construct ==
    /\ v_state = "declared"
    /\ v_state' = IF VariablesRaises(v_consts, v_var) THEN "raised" ELSE "ok"
    /\ UNCHANGED <<v_consts, v_var, v_results, varsC, varsE, varsP, varsS>>

\* self.produce_args(): reads self.consts and self.var, writes neither.
ProduceArgs ==
    /\ v_state = "ok"
    /\ Len(v_results) < MaxCalls
    /\ v_results' = Append(v_results, produce_args(Variables(v_consts, v_var)))
    /\ UNCHANGED <<v_consts, v_var, v_state, varsC, varsE, varsP, varsS>>

NextVariables == Construct \/ ProduceArgs

SpecVariables == InitVariables /\ [][NextVariables]_vars

----------------------------------------------------------------------------
(* Properties of Variables (checked under SpecVariables). *)

SelfVars == Variables(v_consts, v_var)
VarNames == {v_var[j][1] : j \in 1..Len(v_var)}
RangeOf(j) == v_var[j][2]

RECURSIVE SizeFrom(_)
\* n_j * ... * n_k, the number of combinations of the ranges j..k
SizeFrom(j) == IF j > Len(v_var) THEN 1 ELSE Len(RangeOf(j)) * SizeFrom(j + 1)

\* The cartesian product of the declared ranges, as a set of value tuples.
CartesianProduct ==
    LET k == Len(v_var)
        vals == UNION {{RangeOf(j)[i] : i \in 1..Len(RangeOf(j))} : j \in 1..k}
    IN  {t \in [1..k -> vals] :
            \A j \in 1..k : \E i \in 1..Len(RangeOf(j)) : t[j] = RangeOf(j)[i]}

\* The varying values of one argument map, in declared order.
VaryingOf(arg) == [j \in 1..Len(v_var) |-> arg[v_var[j][1]]]

\* C3: produce_args() returns exactly n1*...*nk argument maps, pairwise
\* distinct on the varying names, whose varying-value combinations are the
\* whole cartesian product of the declared ranges, and every map holds every
\* constant with its declared value.
C3_CrossProduct ==
    \A c \in 1..Len(v_results) :
        LET args == v_results[c] IN
        /\ Len(args) = SizeFrom(1)
        /\ \A i, j \in 1..Len(args) : i # j => VaryingOf(args[i]) # VaryingOf(args[j])
        /\ {VaryingOf(args[i]) : i \in 1..Len(args)} = CartesianProduct
        /\ \A i \in 1..Len(args) :
              /\ DOMAIN args[i] = (DOMAIN v_consts) \cup VarNames
              /\ \A k \in DOMAIN v_consts : args[i][k] = v_consts[k]

\* Two varying names of two values each and a constant, expanded.
C3_Witness ==
    /\ v_state = "ok"
    /\ Len(v_results) >= 1
    /\ Len(v_var) = 2
    /\ Len(RangeOf(1)) = 2
    /\ Len(RangeOf(2)) = 2
    /\ DOMAIN v_consts # {}
    /\ Len(v_results[1]) = 4

\* The j-th digit of m written in the mixed radix n1..nk (first digit most
\* significant).
Digit(m, j) == (m \div SizeFrom(j + 1)) % Len(RangeOf(j))

\* C4: produce_args() returns the maps in odometer order over var in declared
\* order (the first-declared name changes slowest, the last-declared fastest),
\* and two calls on the same Variables return equal lists in equal order.
C4_OdometerOrder ==
    /\ \A c \in 1..Len(v_results) :
          LET args == v_results[c] IN
          /\ Len(args) = SizeFrom(1)
          /\ \A i \in 1..Len(args) : \A j \in 1..Len(v_var) :
                args[i][v_var[j][1]] = RangeOf(j)[Digit(i - 1, j) + 1]
    /\ \A c, d \in 1..Len(v_results) : v_results[c] = v_results[d]

\* Two calls on a Variables whose two ranges have two values each.
C4_Witness ==
    /\ Len(v_results) = 2
    /\ Len(v_var) = 2
    /\ Len(RangeOf(1)) = 2
    /\ Len(RangeOf(2)) = 2
    /\ v_results[2][2] # v_results[2][3]

ReservedNames == {_sb_rnames[i] : i \in 1..Len(_sb_rnames)}
UsesReserved == (DOMAIN v_consts \cup VarNames) \cap ReservedNames # {}

\* C8: constructing a Variables whose constants or varying names include a
\* reserved name fails, for every combination of constants and varying list,
\* the empty varying list included.
C8_ReservedRejected == (v_state # "declared" /\ UsesReserved) => v_state = "raised"

SharedNames == (DOMAIN v_consts) \cap VarNames

\* C9: constructing a Variables in which a name is both a constant and a
\* varying name fails; in every constructed Variables the constant names and
\* the varying names are disjoint.
C9_SharedNameRejected ==
    /\ (v_state # "declared" /\ SharedNames # {}) => v_state = "raised"
    /\ v_state = "ok" => SharedNames = {}

\* The constructor raised for a name shared by consts and the second varying
\* entry, with no reserved name among the constants.
C9_Witness ==
    /\ v_state = "raised"
    /\ Len(v_var) = 2
    /\ v_var[2][1] \in DOMAIN v_consts
    /\ v_var[1][1] \notin DOMAIN v_consts
    /\ (DOMAIN v_consts) \cap ReservedNames = {}

----------------------------------------------------------------------------
(* Registered classes: those of tests/plan.py. A class is known by its     *)
(* __name__.                                                               *)

Tomcat == <<"T", "o", "m", "c", "a", "t">>
FFS == <<"F", "F", "S">>
BCK == <<"B", "C", "K">>
Wrk == <<"W", "r", "k">>

BackendClasses == {Tomcat, FFS, BCK}

\* inspect.getfullargspec(cls.start).args of a registered backend class
StartParams(cls) ==
    IF cls = Tomcat THEN <<"tom_var">>
    ELSE IF cls = FFS THEN <<"myvar", "pass_me_in">>
    ELSE <<"another_var">>

\* The defaults of the parameters of cls.start.
StartDefaults(cls) ==
    IF cls = Tomcat THEN [p \in {"tom_var"} |-> IntV(2)]
    ELSE IF cls = FFS THEN [p \in {"myvar", "pass_me_in"} |->
                              IF p = "myvar" THEN IntV(10) ELSE IntV(5)]
    ELSE [p \in {"another_var"} |-> IntV(2)]

\* old(**args): the values the parameters of cls.start are bound to; a
\* parameter args does not name keeps its default.
BindStart(cls, args) ==
    [p \in DOMAIN StartDefaults(cls) |->
        IF p \in DOMAIN args THEN args[p] ELSE StartDefaults(cls)[p]]

\* _get_args(spec, **kwargs): the entries of kwargs named in spec.args
_get_args_unfiltered(spec_args, kwargs) == kwargs
_get_args(spec_args, kwargs) ==
    [k \in {spec_args[i] : i \in 1..Len(spec_args)} \cap DOMAIN kwargs |-> kwargs[k]]

----------------------------------------------------------------------------
(* core.compose_backends *)

\* reversed(backends)
Reversed(seq) == [i \in 1..Len(seq) |-> seq[Len(seq) + 1 - i]]

\* The elements a for loop over `order` reaches when the call made for its
\* f-th element raises (f = 0: no call raises).
CallsUntil(order, f) == SubSeq(order, 1, IF f = 0 THEN Len(order) ELSE f)

\* One call of a member class: wrapped_start(**kwargs) or uninit().
MemberCall(op, cls, kwargs, raised) ==
    [op |-> op, cls |-> cls, kwargs |-> kwargs, raised |-> raised,
     bound |-> IF op = "start" THEN BindStart(cls, kwargs) ELSE <<>>]

\* start(**kwargs) of the composition: for backend in backends: backend.start(**kwargs),
\* each backend.start being registerbackend's wrapped_start.
compose_start_past_failure(backends, kwargs, f) ==
    [calls |-> [i \in 1..Len(backends) |->
                  MemberCall("start", backends[i],
                             _get_args(StartParams(backends[i]), kwargs), i = f)],
     raised |-> f # 0]
compose_start(backends, kwargs, f) ==
    LET called == CallsUntil(backends, f)
    IN  [calls |-> [i \in 1..Len(called) |->
                      MemberCall("start", called[i],
                                 _get_args(StartParams(called[i]), kwargs), i = f)],
         raised |-> f # 0]

\* uninit() of the composition: for backend in reversed(backends): backend.uninit()
compose_uninit_forward(backends, f) ==
    LET called == CallsUntil(backends, f)
    IN  [calls |-> [i \in 1..Len(called) |-> MemberCall("uninit", called[i], <<>>, i = f)],
         raised |-> f # 0]
compose_uninit(backends, f) ==
    LET called == CallsUntil(Reversed(backends), f)
    IN  [calls |-> [i \in 1..Len(called) |-> MemberCall("uninit", called[i], <<>>, i = f)],
         raised |-> f # 0]

----------------------------------------------------------------------------
(* The compose specification: one composition of registered classes, whose  *)
(* start and uninit are called. Any call of a member may raise.             *)

\* Lists of pairwise different registered classes.
MemberLists ==
    UNION {{m \in [1..k -> BackendClasses] : \A i, j \in 1..k : i # j => m[i] # m[j]} :
              k \in 1..MaxMembers}

\* Keyword arguments: parameters of Tomcat and FFS, and a name no class takes.
KwargDicts == UNION {[S -> {IntV(1)}] : S \in SUBSET {"tom_var", "pass_me_in", "zzz"}}

InitCompose ==
    /\ c_members \in MemberLists
    /\ c_kwargs \in KwargDicts
    /\ c_hist = <<>>
    /\ IdleVariables
    /\ IdleExecution
    /\ IdleStorage

\* composition.start(**kwargs)
ComposedStart ==
    /\ Len(c_hist) < MaxComposedCalls
    /\ \E f \in 0..Len(c_members) :
          c_hist' = Append(c_hist, [op |-> "start", r |-> compose_start(c_members, c_kwargs, f)])
    /\ UNCHANGED <<c_members, c_kwargs, varsV, varsE, varsP, varsS>>

\* composition.uninit()
ComposedUninit ==
    /\ Len(c_hist) < MaxComposedCalls
    /\ \E f \in 0..Len(c_members) :
          c_hist' = Append(c_hist, [op |-> "uninit", r |-> compose_uninit(c_members, f)])
    /\ UNCHANGED <<c_members, c_kwargs, varsV, varsE, varsP, varsS>>

NextCompose == ComposedStart \/ ComposedUninit

SpecCompose == InitCompose /\ [][NextCompose]_vars

\* The classes called by one call of the composition, in call order.
CalledClasses(h) == [i \in 1..Len(h.r.calls) |-> h.r.calls[i].cls]

\* C2: one call of the composed start invokes B1.start, ..., Bn.start in
\* declaration order, and one call of the composed uninit invokes Bn.uninit,
\* ..., B1.uninit in the reverse order. A call that returns has invoked every
\* member; the calls made before a member raises follow the same order.
C2_ComposedOrder ==
    \A c \in 1..Len(c_hist) :
        LET h == c_hist[c]
            n == Len(c_members)
            called == CalledClasses(h)
        IN  /\ Len(called) <= n
            /\ ~h.r.raised => Len(called) = n
            /\ \A i \in 1..Len(called) :
                  /\ h.r.calls[i].op = h.op
                  /\ h.op = "start" => called[i] = c_members[i]
                  /\ h.op = "uninit" => called[i] = c_members[n + 1 - i]

\* A composition of two classes whose start, then whose uninit, returned.
C2_Witness ==
    /\ Len(c_members) = 2
    /\ Len(c_hist) = 2
    /\ c_hist[1].op = "start"
    /\ ~c_hist[1].r.raised
    /\ CalledClasses(c_hist[1]) = c_members
    /\ c_hist[2].op = "uninit"
    /\ ~c_hist[2].r.raised
    /\ CalledClasses(c_hist[2]) = <<c_members[2], c_members[1]>>

\* C16: a registered backend's start receives exactly those entries of the
\* argument map whose names are parameters of its own start; every other key
\* is dropped, so each member of a composed backend receives only its own
\* subset, and a parameter that is not supplied keeps its default.
C16_StartArgsFiltered ==
    \A c \in 1..Len(c_hist) :
        c_hist[c].op = "start" =>
            \A i \in 1..Len(c_hist[c].r.calls) :
                LET m == c_hist[c].r.calls[i]
                    params == {StartParams(m.cls)[j] : j \in 1..Len(StartParams(m.cls))}
                IN  /\ DOMAIN m.kwargs = params \cap DOMAIN c_kwargs
                    /\ \A k \in DOMAIN m.kwargs : m.kwargs[k] = c_kwargs[k]
                    /\ DOMAIN m.bound = params
                    /\ \A p \in params :
                          m.bound[p] = IF p \in DOMAIN c_kwargs THEN c_kwargs[p]
                                       ELSE StartDefaults(m.cls)[p]

\* The composition of Tomcat and FFS was started with tom_var, pass_me_in and
\* a name neither class takes; myvar was not given.
C16_Witness ==
    /\ c_members = <<Tomcat, FFS>>
    /\ DOMAIN c_kwargs = {"tom_var", "pass_me_in", "zzz"}
    /\ Len(c_hist) >= 1
    /\ c_hist[1].op = "start"
    /\ ~c_hist[1].r.raised
    /\ Len(c_hist[1].r.calls) = 2
    /\ c_hist[1].r.calls[2].bound["myvar"] = IntV(10)
    /\ c_hist[1].r.calls[2].bound["pass_me_in"] = IntV(1)

----------------------------------------------------------------------------
(* Strings. *)

RECURSIVE Join(_, _)
\* sep.join(parts)
Join(parts, sep) ==
    IF Len(parts) = 0 THEN <<>>
    ELSE IF Len(parts) = 1 THEN parts[1]
    ELSE parts[1] \o sep \o Join(Tail(parts), sep)

\* s.endswith(suffix)
EndsWith(s, suffix) ==
    /\ Len(s) >= Len(suffix)
    /\ SubSeq(s, Len(s) - Len(suffix) + 1, Len(s)) = suffix

\* The working directory of the process.
Cwd == <<"/", "w">>

\* os.path.abspath(path), for a path without "." and ".." parts
Abspath(path) ==
    IF Len(path) > 0 /\ path[1] = "/" THEN path ELSE Cwd \o <<"/">> \o path

RECURSIVE Split(_, _)
\* s.split(c) for a one-character separator c
Split(s, c) ==
    IF \A i \in 1..Len(s) : s[i] # c THEN <<s>>
    ELSE LET i == CHOOSE i \in 1..Len(s) : s[i] = c /\ \A j \in 1..(i - 1) : s[j] # c
         IN  <<SubSeq(s, 1, i - 1)>> \o Split(SubSeq(s, i + 1, Len(s)), c)

\* path.split("/")[-1]
Basename(path) == LET parts == Split(path, "/") IN parts[Len(parts)]

\* Backend.out_to_user: "/".join(path.split("-"))
out_to_user(path) == Join(Split(path, "-"), <<"/">>)

\* The value of a decimal digit, -1 for any other character.
DigitValue(c) == IF \E d \in 1..10 : DigitChar[d] = c
                 THEN (CHOOSE d \in 1..10 : DigitChar[d] = c) - 1 ELSE -1

RECURSIVE ParseInt(_)
\* int(s) of a string of decimal digits; -1 stands for the ValueError int()
\* raises for any other string.
ParseInt(s) ==
    IF Len(s) = 0 \/ DigitValue(s[Len(s)]) < 0 THEN -1
    ELSE IF Len(s) = 1 THEN DigitValue(s[1])
    ELSE LET high == ParseInt(SubSeq(s, 1, Len(s) - 1))
         IN  IF high < 0 THEN -1 ELSE 10 * high + DigitValue(s[Len(s)])

----------------------------------------------------------------------------
(* Backend and benchmark objects. `attrs` are the instance attributes the   *)
(* constructor sets, `methods` the static methods of the class; reading any *)
(* other attribute raises AttributeError. `vs` is the Variables the         *)
(* constructor builds, whatever the attribute it is stored in.              *)

\* An instance of the class compose_backends(*members) returns.
ComposedBackend(members, consts, var) ==
    [kind |-> "composed", attrs |-> {"variables", "name"}, methods |-> {"start", "uninit"},
     members |-> members, name |-> Join(members, <<"-">>), vs |-> Variables(consts, var)]

\* An instance of a class decorated with registerbackend.
RegisteredBackend(cls, consts, var) ==
    [kind |-> "registered", attrs |-> {"vars", "name"}, methods |-> {"start", "uninit"},
     members |-> <<cls>>, name |-> cls, vs |-> Variables(consts, var)]

\* NullBackend()
NullBackend ==
    [kind |-> "null", attrs |-> {"var"}, methods |-> {"init", "uninit"},
     members |-> <<>>, name |-> <<>>, vs |-> Variables(<<>>, <<>>)]

\* An instance of a class decorated with registerbenchmark.
Benchmark(cls, consts, var, iterations) ==
    [cls |-> cls, name |-> cls, variables |-> Variables(consts, var),
     iterations |-> iterations]

----------------------------------------------------------------------------
(* core.Execution *)

\* Execution.__init__: self.backends
InitBackends(backends) == IF Len(backends) > 0 THEN backends ELSE <<NullBackend>>

\* Execution.__init__: self.name
ExecutionName(backends, bench) ==
    Join([i \in 1..Len(backends) |-> backends[i].name], <<",">>) \o <<"-">> \o bench.name

\* Execution.is_sql_backed
is_sql_backed(out) == EndsWith(out, <<".", "d", "b">>)

RECURSIVE FormatValues(_, _)
\* for name in names: file += "_{}".format(args[name])
FormatValues(names, args) ==
    IF Len(names) = 0 THEN <<>>
    ELSE <<"_">> \o Str(args[names[1]]) \o FormatValues(Tail(names), args)

\* Execution.out_file
out_file(bench, out, back_obj, backend_args, bench_args, iteration) ==
    LET file == bench.cls \o <<"_", "b", "_">> \o back_obj.name
                    \o FormatValues(y_names(back_obj.vs), backend_args)
                    \o FormatValues(y_names(bench.variables), bench_args)
                    \o <<"_">> \o Dec(iteration)
    IN  IF is_sql_backed(out) THEN file ELSE out \o <<"/">> \o file

\* Execution._merged_args: the "backend" entries of the list it returns; every
\* entry's "benchmark" is bench.variables.produce_args().
BackendArgSets(back_obj) == produce_args(back_obj.vs)
BenchArgSets(bench) == produce_args(bench.variables)

\* One call made by execute(). `at` = <<bi, ai, ci, it>> tells the place in the
\* loops the call was made from (ci = 0 outside the benchmark loops).
Call(op, at, kwargs, backend, out, raised) ==
    [op |-> op, at |-> at, kwargs |-> kwargs, backend |-> backend, out |-> out,
     raised |-> raised]

RECURSIVE EnterBackend(_, _)
\* execute(): the outer loop arrives at self.backends[b]: `back.variables` is
\* read, and the loop over its argument sets begins.
EnterBackend(self, b) ==
    IF b > Len(self.backends) THEN [pc |-> "done", bi |-> b, ai |-> 0]
    ELSE IF "variables" \notin self.backends[b].attrs THEN [pc |-> "raised", bi |-> b, ai |-> 0]
    ELSE IF Len(BackendArgSets(self.backends[b])) = 0 THEN EnterBackend(self, b + 1)
    ELSE [pc |-> "start", bi |-> b, ai |-> 1]

\* execute(): where the loops are after start(**back_args) returned.
AfterStartWithoutUninit(nbench, iterations) ==
    IF nbench = 0 \/ iterations = 0 THEN [pc |-> "start", ci |-> 0, it |-> 0]
    ELSE [pc |-> "run", ci |-> 1, it |-> 0]
AfterStart(nbench, iterations) ==
    IF nbench = 0 \/ iterations = 0 THEN [pc |-> "uninit", ci |-> 0, it |-> 0]
    ELSE [pc |-> "run", ci |-> 1, it |-> 0]

\* execute(): where execute() is after the call of start: an exception start
\* raises is not caught and leaves execute(); otherwise the loops go on.
AfterStartCallIgnoringRaise(raised, nbench, iterations) == AfterStart(nbench, iterations)
AfterStartCall(raised, nbench, iterations) ==
    IF raised THEN [pc |-> "raised", ci |-> 0, it |-> 0]
    ELSE AfterStart(nbench, iterations)

\* execute(): where the loops are after run(...) returned.
AfterRunNoInnerLoop(c, i, nbench, iterations) ==
    IF i + 1 < iterations THEN [pc |-> "run", ci |-> c, it |-> i + 1]
    ELSE [pc |-> "uninit", ci |-> 0, it |-> 0]
AfterRun(c, i, nbench, iterations) ==
    IF i + 1 < iterations THEN [pc |-> "run", ci |-> c, it |-> i + 1]
    ELSE IF c < nbench THEN [pc |-> "run", ci |-> c + 1, it |-> 0]
    ELSE [pc |-> "uninit", ci |-> 0, it |-> 0]

\* execute(): where the loops are after uninit() returned.
AfterUninit(self, b, a) ==
    IF a < Len(BackendArgSets(self.backends[b])) THEN [pc |-> "start", bi |-> b, ai |-> a + 1]
    ELSE EnterBackend(self, b + 1)

----------------------------------------------------------------------------
(* core.Metrics and Execution.parse *)

\* Metrics()
Metrics == [vars |-> <<>>, consts |-> <<>>]

\* Metrics.add_metric(key, val)
add_metric(m, key, val) ==
    IF key \notin DOMAIN m.vars
    THEN [m EXCEPT !.vars = DictSet(m.vars, key, <<val>>)]
    ELSE [m EXCEPT !.vars = DictSet(m.vars, key, Append(m.vars[key], val))]

\* for k, v in d.items(): metrics.add_constant(k, v)
add_constants(m, d) ==
    [m EXCEPT !.consts = [k \in (DOMAIN m.consts) \cup (DOMAIN d) |->
                             IF k \in DOMAIN d THEN d[k] ELSE m.consts[k]]]

\* The parser of tests/plan.py, file_func(metrics, path), reading a file whose
\* Latency line gives the value v: metrics.add_metric("low", v).
file_func(m, v) == add_metric(m, "low", v)

RECURSIVE ParserCalls(_, _, _)
\* for iteration in range(0, n): self.parser(metrics, out_file)
ParserCalls(m, n, v) == IF n = 0 THEN m ELSE file_func(ParserCalls(m, n - 1, v), v)

\* self._cached = None
None == [set |-> FALSE, val |-> <<>>]

\* parse(): `if self._cached:` (None and the empty list are false)
CacheHitNever(c) == FALSE
CacheHit(c) == c.set /\ Len(c.val) > 0

RECURSIVE ParseCells(_, _, _)
\* parse(): the (back, back_args, ba) its three outer loops reach from
\* self.backends[b] on, in loop order; an entry with a = 0 is a backend
\* whose `back.variables` raises AttributeError, which ends parse().
ParseCellsBenchOuter(self, bench, b) ==
    IF b > Len(self.backends) THEN <<>>
    ELSE IF "variables" \notin self.backends[b].attrs THEN <<[b |-> b, a |-> 0, c |-> 0]>>
    ELSE LET na == Len(BackendArgSets(self.backends[b]))
             nc == Len(BenchArgSets(bench))
         IN  [j \in 1..(na * nc) |->
                 [b |-> b, a |-> ((j - 1) % na) + 1, c |-> ((j - 1) \div na) + 1]]
                 \o ParseCells(self, bench, b + 1)
ParseCells(self, bench, b) ==
    IF b > Len(self.backends) THEN <<>>
    ELSE IF "variables" \notin self.backends[b].attrs THEN <<[b |-> b, a |-> 0, c |-> 0]>>
    ELSE LET na == Len(BackendArgSets(self.backends[b]))
             nc == Len(BenchArgSets(bench))
         IN  [j \in 1..(na * nc) |->
                 [b |-> b, a |-> ((j - 1) \div nc) + 1, c |-> ((j - 1) % nc) + 1]]
                 \o ParseCells(self, bench, b + 1)

\* The cells parse() works on before anything raises.
CellsReached(self, bench) ==
    LET all == ParseCells(self, bench, 1)
        stops == {q \in 1..Len(all) : all[q].a = 0}
    IN  IF stops = {} THEN all
        ELSE SubSeq(all, 1, (CHOOSE q \in stops : \A r \in stops : q <= r) - 1)

\* The Metrics parse() builds for one cell: the benchmark arguments, then the
\* backend arguments as constants, then one parser call per iteration.
CellMetrics(self, bench, cell, v) ==
    LET back_args == BackendArgSets(self.backends[cell.b])[cell.a]
        ba == BenchArgSets(bench)[cell.c]
    IN  ParserCalls(add_constants(add_constants(Metrics, ba), back_args),
                    bench.iterations, v)

\* Execution.parse() when the cache is not used. f is the parser call that
\* raises (0: none does), v the value the parser reads in the files.
parse(self, bench, out, f, v) ==
    LET cells == CellsReached(self, bench)
        k == bench.iterations
        attr_error == Len(cells) < Len(ParseCells(self, bench, 1))
        ncalls == IF f # 0 THEN f ELSE Len(cells) * k
        cell(j) == cells[((j - 1) \div k) + 1]
    IN  [paths |-> [j \in 1..ncalls |->
                      Abspath(out_file(bench, out, self.backends[cell(j).b],
                                       BackendArgSets(self.backends[cell(j).b])[cell(j).a],
                                       BenchArgSets(bench)[cell(j).c], (j - 1) % k))],
         combined |-> [q \in 1..Len(cells) |-> CellMetrics(self, bench, cells[q], v)],
         raised |-> f # 0 \/ attr_error]

\* The number of parser calls parse() makes when none raises.
ParserCallCount(self, bench) == Len(CellsReached(self, bench)) * bench.iterations

\* ParseExecution.parse() when the cache is not used: the file `data`, or
\* every file os.listdir(data) gives, is handed to the parsing function. f is
\* the call that raises (0: none does), v the value read in the files.
parse_execution(data, f, v) ==
    LET paths == IF data.isdir
                 THEN [i \in 1..Len(data.files) |-> data.path \o <<"/">> \o data.files[i]]
                 ELSE <<data.path>>
    IN  [paths |-> SubSeq(paths, 1, IF f # 0 THEN f ELSE Len(paths)),
         combined |-> <<ParserCalls(Metrics, Len(paths), v)>>,
         raised |-> f # 0]

\* The data given to plan_parse: a file, or a directory of up to MaxFiles files.
ParseData ==
    {[isdir |-> FALSE, path |-> <<"t">>, files |-> <<>>]}
        \cup {[isdir |-> TRUE, path |-> <<"d">>, files |-> SubSeq(<<<<"a">>, <<"b">>, <<"c">>>>, 1, n)] :
                 n \in 0..MaxFiles}

\* The values the parser may read in the output files.
ParserValues == {IntV(1), IntV(2)}

----------------------------------------------------------------------------
(* The inputs of the Execution specification. *)

\* range(0, n)
RangeTo(n) == [i \in 1..n |-> IntV(i - 1)]

\* The composition of tests/plan.py: compose_backends(Tomcat, FFS).
PlanMembers == <<Tomcat, FFS>>

\* Backend objects a plan may list, in the order this model lists them: the
\* composition constructed with no varying name, the composition with
\* pass_me_in swept over a range, a composition of BCK alone, and a registered
\* class used directly, as in the example of plan_execution's docstring.
BackendObjects ==
    <<ComposedBackend(PlanMembers, <<>>, <<>>)>>
        \o [n \in 1..MaxRange |->
               ComposedBackend(PlanMembers, <<>>, << <<"pass_me_in", RangeTo(n)>> >>)]
        \o <<ComposedBackend(<<BCK>>, <<>>, <<>>), RegisteredBackend(BCK, <<>>, <<>>)>>

\* The backends argument: up to MaxBackends different backend objects.
BackendLists ==
    UNION {{[i \in 1..k |-> BackendObjects[pick[i]]] :
               pick \in {p \in [1..k -> 1..Len(BackendObjects)] :
                            \A i \in 1..(k - 1) : p[i] < p[i + 1]}} :
              k \in 0..MaxBackends}

\* Benchmarks a plan may give: Wrk with no varying name, with x swept, or with
\* test and x swept, x over one value less than test.
BenchmarkObjects ==
    {Benchmark(Wrk, <<>>, var, n) :
        var \in {<<>>} \cup {<< <<"x", RangeTo(m)>> >> : m \in 0..MaxRange}
                  \cup {<< <<"test", RangeTo(l)>>, <<"x", RangeTo(l - 1)>> >> :
                            l \in 2..MaxRange},
        n \in 1..MaxIter}

\* out: a directory, or a database file.
OutChoices == {<<"o", "u", "t">>, <<"o", ".", "d", "b">>}

----------------------------------------------------------------------------
(* The Execution specification: Execution(benchmark, backends, parser, out) *)
(* is constructed, then execute() is called on it. Every call into user     *)
(* code (a member's start or uninit, the benchmark's run) may raise.        *)

Init ==
    /\ cfg \in [bench : BenchmarkObjects, backends : BackendLists, out : OutChoices]
                  \cup [data : ParseData, out : {<<"o", "u", "t">>}]
    /\ ex = [backends |-> <<>>, name |-> <<>>]
    /\ pc = IF "data" \in DOMAIN cfg THEN "plan_parse" ELSE "declared"
    /\ bi = 0
    /\ ai = 0
    /\ ci = 0
    /\ it = 0
    /\ calls = <<>>
    /\ mcalls = <<>>
    /\ cached = None
    /\ pcalls = <<>>
    /\ np = 0
    /\ plast = "none"
    /\ IdleVariables
    /\ IdleCompose
    /\ IdleStorage

\* Execution.__init__: reading back.name of a backend without that attribute
\* raises.
ExecutionInit ==
    /\ pc = "declared"
    /\ LET backends == InitBackends(cfg.backends)
       IN  IF \A i \in 1..Len(backends) : "name" \in backends[i].attrs
           THEN /\ ex' = [backends |-> backends, name |-> ExecutionName(backends, cfg.bench)]
                /\ pc' = "constructed"
           ELSE /\ ex' = [backends |-> backends, name |-> <<>>]
                /\ pc' = "init_raised"
    /\ UNCHANGED <<cfg, bi, ai, ci, it, calls, mcalls, varsV, varsC, varsP, varsS>>

\* execute() is called: the loops begin.
Execute ==
    /\ pc = "constructed"
    /\ np = 0
    /\ LET to == EnterBackend(ex, 1)
       IN  /\ pc' = to.pc
           /\ bi' = to.bi
           /\ ai' = to.ai
    /\ UNCHANGED <<cfg, ex, ci, it, calls, mcalls, varsV, varsC, varsP, varsS>>

\* execute(): back.__class__.start(**back_args)
Start ==
    /\ pc = "start"
    /\ LET back == ex.backends[bi]
           back_args == BackendArgSets(back)[ai]
       IN  \E f \in 0..Len(back.members) :
              LET r == compose_start(back.members, back_args, f)
                  to == AfterStartCall(r.raised, Len(BenchArgSets(cfg.bench)),
                                       cfg.bench.iterations)
              IN  /\ calls' = Append(calls, Call("start", <<bi, ai, 0, 0>>, back_args,
                                                 <<>>, <<>>, r.raised))
                  /\ mcalls' = mcalls \o r.calls
                  /\ pc' = to.pc
                  /\ ci' = to.ci
                  /\ it' = to.it
    /\ UNCHANGED <<cfg, ex, bi, ai, varsV, varsC, varsP, varsS>>

\* execute(): self.bench.__class__.run(back.name, out_file, **ba)
Run ==
    /\ pc = "run"
    /\ LET back == ex.backends[bi]
           back_args == BackendArgSets(back)[ai]
           bench_args == BenchArgSets(cfg.bench)
           ba == bench_args[ci]
           path == Abspath(out_file(cfg.bench, cfg.out, back, back_args, ba, it))
           to == AfterRun(ci, it, Len(bench_args), cfg.bench.iterations)
       IN  \E raised \in BOOLEAN :
              /\ calls' = Append(calls, Call("run", <<bi, ai, ci, it>>, ba, back.name,
                                             path, raised))
              /\ IF raised
                 THEN pc' = "raised" /\ UNCHANGED <<ci, it>>
                 ELSE pc' = to.pc /\ ci' = to.ci /\ it' = to.it
    /\ UNCHANGED <<cfg, ex, bi, ai, mcalls, varsV, varsC, varsP, varsS>>

\* execute(): back.__class__.uninit()
Uninit ==
    /\ pc = "uninit"
    /\ LET back == ex.backends[bi]
       IN  \E f \in 0..Len(back.members) :
              LET r == compose_uninit(back.members, f)
                  to == AfterUninit(ex, bi, ai)
              IN  /\ calls' = Append(calls, Call("uninit", <<bi, ai, 0, 0>>, <<>>,
                                                 <<>>, <<>>, r.raised))
                  /\ mcalls' = mcalls \o r.calls
                  /\ IF r.raised
                     THEN pc' = "raised" /\ UNCHANGED <<bi, ai>>
                     ELSE pc' = to.pc /\ bi' = to.bi /\ ai' = to.ai
    /\ UNCHANGED <<cfg, ex, ci, it, varsV, varsC, varsP, varsS>>

\* parse() is called, as execute_plan does after execute() returned, or
\* without execute() (no_exec). A raise of parse() is not caught by
\* execute_plan: no further call follows it.
Parse ==
    /\ pc \in {"constructed", "done"}
    /\ np < MaxParse
    /\ plast # "raised"
    /\ np' = np + 1
    /\ IF CacheHit(cached)
       THEN /\ plast' = "cached"
            /\ pcalls' = <<>>
            /\ cached' = cached
       ELSE LET n == ParserCallCount(ex, cfg.bench)
            IN  \E f \in 0..(IF n < MaxFailAt THEN n ELSE MaxFailAt), v \in ParserValues :
                   LET r == parse(ex, cfg.bench, cfg.out, f, v)
                   IN  /\ plast' = IF r.raised THEN "raised" ELSE "returned"
                       /\ pcalls' = r.paths
                       /\ cached' = IF r.raised THEN cached
                                     ELSE [set |-> TRUE, val |-> r.combined]
    /\ UNCHANGED <<varsE, varsV, varsC, varsS>>

\* parse() is called on the ParseExecution plan_parse(data, func, out_dir) made.
ParseExecutionParse ==
    /\ pc = "plan_parse"
    /\ np < MaxParse
    /\ plast # "raised"
    /\ np' = np + 1
    /\ IF CacheHit(cached)
       THEN /\ plast' = "cached"
            /\ pcalls' = <<>>
            /\ cached' = cached
       ELSE LET n == IF cfg.data.isdir THEN Len(cfg.data.files) ELSE 1
            IN  \E f \in 0..(IF n < MaxFailAt THEN n ELSE MaxFailAt), v \in ParserValues :
                   LET r == parse_execution(cfg.data, f, v)
                   IN  /\ plast' = IF r.raised THEN "raised" ELSE "returned"
                       /\ pcalls' = r.paths
                       /\ cached' = IF r.raised THEN cached
                                     ELSE [set |-> TRUE, val |-> r.combined]
    /\ UNCHANGED <<varsE, varsV, varsC, varsS>>

Next == ExecutionInit \/ Execute \/ Start \/ Run \/ Uninit \/ Parse \/ ParseExecutionParse

Spec == Init /\ [][Next]_vars

----------------------------------------------------------------------------
(* Properties of execute() (checked under Spec). *)

\* The calls made so far, each as <<op, at>>.
CallPlaces == [i \in 1..Len(calls) |-> <<calls[i].op, calls[i].at>>]

\* The calls of one start -> run x N -> stop cycle, for argument set a of
\* backend b: every (benchmark argument map, iteration) pair, the maps in
\* order and the iterations 0..iterations-1 within each map.
CycleCalls(b, a) ==
    LET k == cfg.bench.iterations
        n == Len(BenchArgSets(cfg.bench))
    IN  << <<"start", <<b, a, 0, 0>>>> >>
            \o [j \in 1..(n * k) |-> <<"run", <<b, a, ((j - 1) \div k) + 1, (j - 1) % k>>>>]
            \o << <<"uninit", <<b, a, 0, 0>>>> >>

RECURSIVE CyclesFrom(_, _)
\* The cycles of backend b from its argument set a on, then those of the
\* backends after b.
CyclesFrom(b, a) ==
    IF b > Len(ex.backends) THEN <<>>
    ELSE IF a > Len(BackendArgSets(ex.backends[b])) THEN CyclesFrom(b + 1, 1)
    ELSE CycleCalls(b, a) \o CyclesFrom(b, a + 1)

ExecuteEnded == pc \in {"done", "raised"}

\* C10: if benchmark.run fails for one cell, execute() still invokes
\* benchmark.run for every later cell of the matrix.
C10_RunFailureIsolated ==
    ExecuteEnded =>
        \A i \in 1..Len(calls) :
            (calls[i].op = "run" /\ calls[i].raised) =>
                \A j \in (i + 1)..Len(CyclesFrom(1, 1)) :
                    CyclesFrom(1, 1)[j][1] = "run" =>
                        \E h \in 1..Len(calls) : CallPlaces[h] = CyclesFrom(1, 1)[j]

\* C11: if a backend start fails for a backend argument set, benchmark.run is
\* not invoked for any (benchmark argument set, iteration) of that argument
\* set.
C11_StartFailureNoRuns ==
    \A i \in 1..Len(calls) :
        (calls[i].op = "start" /\ calls[i].raised) =>
            \A j \in 1..Len(calls) :
                calls[j].op = "run" =>
                    <<calls[j].at[1], calls[j].at[2]>> # <<calls[i].at[1], calls[i].at[2]>>

\* The start of the second argument set of a backend failed, after the cycle
\* of its first argument set had run the benchmark; the benchmark has
\* argument sets and iterations left to run.
C11_Witness ==
    /\ pc = "raised"
    /\ Len(calls) >= 4
    /\ calls[Len(calls)].op = "start"
    /\ calls[Len(calls)].raised
    /\ calls[Len(calls)].at[2] = 2
    /\ Len(BenchArgSets(cfg.bench)) * cfg.bench.iterations >= 2
    /\ \E j \in 1..Len(calls) : calls[j].op = "run"

\* C12: if a backend uninit fails after the runs of one backend argument set,
\* execute() still starts and runs every later argument set.
C12_StopFailureContinues ==
    ExecuteEnded =>
        \A i \in 1..Len(calls) :
            (calls[i].op = "uninit" /\ calls[i].raised) =>
                \A j \in (i + 1)..Len(CyclesFrom(1, 1)) :
                    \E h \in 1..Len(calls) : CallPlaces[h] = CyclesFrom(1, 1)[j]

----------------------------------------------------------------------------
(* Decoding of identity strings. *)

\* MatchParser.parse / FileParser.parse: obj["_execution_name"]
ParsedExecutionName(path) == Split(Basename(path), "_")[1]

\* Execution.reverse_file_out(path): split the identity string on "_", take
\* the token "b" as the mark of a backend segment, then as many tokens as the
\* backend's and the benchmark's y_names(), then the iteration. ok is FALSE
\* when the number of tokens is not the expected one.
reverse_file_out(self, bench, path) ==
    LET tokens == Split(Basename(path), "_")
        marked == Len(tokens) >= 3 /\ tokens[2] = <<"b">>
        known == {b \in 1..Len(self.backends) : marked /\ self.backends[b].name = tokens[3]}
        k == IF known = {} THEN 0
             ELSE Len(y_names(self.backends[CHOOSE b \in known : TRUE].vs))
        m == Len(y_names(bench.variables))
        first == IF marked THEN 4 ELSE 2
        wanted == (first - 1) + k + m + 1
    IN  IF Len(tokens) # wanted \/ (marked /\ known = {})
           \/ ParseInt(tokens[Len(tokens)]) < 0
        THEN [ok |-> FALSE, backend |-> <<>>, backend_values |-> <<>>,
              bench_values |-> <<>>, iter |-> 0]
        ELSE [ok |-> TRUE,
              backend |-> IF marked THEN out_to_user(tokens[3]) ELSE <<>>,
              backend_values |-> SubSeq(tokens, first, first + k - 1),
              bench_values |-> SubSeq(tokens, first + k, first + k + m - 1),
              iter |-> ParseInt(tokens[Len(tokens)])]

----------------------------------------------------------------------------
(* Properties of the naming of outputs (checked under Spec). *)

\* The text of the values args gives to names, in the order of names.
ValueTexts(names, args) == [j \in 1..Len(names) |-> Str(args[names[j]])]

\* What a run call was made for.
BackendOf(e) == ex.backends[e.at[1]]
BackendArgsOf(e) == BackendArgSets(BackendOf(e))[e.at[2]]
BenchArgsOf(e) == BenchArgSets(cfg.bench)[e.at[3]]
IterationOf(e) == e.at[4]

\* The user-facing path of a composed backend: its members joined by "/".
UserPath(back) == Join(back.members, <<"/">>)

\* C5: decoding the identity string out_file produces for (execution name,
\* composed backend path, backend varying values, benchmark varying values,
\* iteration) returns that tuple again.
C5_NamingRoundTrip ==
    \A i \in 1..Len(calls) :
        calls[i].op = "run" =>
            LET e == calls[i]
                d == reverse_file_out(ex, cfg.bench, e.out)
            IN  /\ d.ok
                /\ ParsedExecutionName(e.out) = ex.name
                /\ d.backend = UserPath(BackendOf(e))
                /\ d.backend_values = ValueTexts(y_names(BackendOf(e).vs), BackendArgsOf(e))
                /\ d.bench_values = ValueTexts(y_names(cfg.bench.variables), BenchArgsOf(e))
                /\ d.iter = IterationOf(e)

\* C6: with a backend, the identity string out_file returns is, joined by
\* "_": the execution's name, the literal b, the rendered composed-backend
\* path, the backend's varying values in y_names() order, the benchmark's
\* varying values in y_names() order, and the iteration number.
C6_IdentityFormat ==
    \A i \in 1..Len(calls) :
        calls[i].op = "run" =>
            LET e == calls[i]
            IN  Basename(e.out) =
                    Join(<<ex.name, <<"b">>, BackendOf(e).name>>
                             \o ValueTexts(y_names(BackendOf(e).vs), BackendArgsOf(e))
                             \o ValueTexts(y_names(cfg.bench.variables), BenchArgsOf(e))
                             \o <<Dec(IterationOf(e))>>,
                         <<"_">>)

\* The program has ended: the constructor raised, or execute() ended.
ProgramEnded == pc \in {"init_raised", "done", "raised"}

\* The run calls made so far.
Runs == SelectSeq(calls, LAMBDA e : e.op = "run")

\* C7: an Execution declared with no backend runs against one implicit null
\* backend: for a benchmark with one varying name of n values and k
\* iterations, execute() invokes run n*k times, once per (value, iteration),
\* ordered by value then iteration, each output named
\* {executionName}_{value}_{iteration}.
C7_NullBackendRuns ==
    (/\ ProgramEnded
     /\ Len(cfg.backends) = 0
     /\ Len(cfg.bench.variables.var) = 1
     /\ \A i \in 1..Len(calls) : ~calls[i].raised)
    => LET values == cfg.bench.variables.var[1][2]
           k == cfg.bench.iterations
       IN  /\ Len(Runs) = Len(values) * k
           /\ \A j \in 1..Len(Runs) :
                 Basename(Runs[j].out) =
                     Join(<<ex.name, Str(values[((j - 1) \div k) + 1]), Dec((j - 1) % k)>>,
                          <<"_">>)

----------------------------------------------------------------------------
(* Properties of parse() (checked under Spec). *)

\* C13: calling parse() twice on one Execution without an intervening
\* execute() leaves the cached record set after the second call identical to
\* the one after the first: a call of parse() that follows a call that
\* returned does not change self._cached.
C13_ParseIdempotent ==
    [][(np' = np + 1 /\ plast \in {"returned", "cached"}) => cached' = cached]_vars

\* After execute(), parse() populated the cache with several records and a
\* second parse() returned on it.
C13_Witness ==
    /\ pc = "done"
    /\ np = 2
    /\ plast = "cached"
    /\ Len(cached.val) >= 2

\* C14: after parse(), the cached record set holds one Record per executed
\* run, i.e. one per (backend argument set, benchmark argument set,
\* iteration) cell, each carrying that run's _iter value and its varying
\* values.
C14_RecordPerRun ==
    (pc = "done" /\ np = 1 /\ plast = "returned") =>
        /\ Len(cached.val) = Len(Runs)
        /\ \A q \in 1..Len(Runs) :
              LET rec == cached.val[q]
                  e == Runs[q]
                  backnames == y_names(BackendOf(e).vs)
                  benchnames == y_names(cfg.bench.variables)
              IN  /\ "_iter" \in DOMAIN rec.consts
                  /\ rec.consts["_iter"] = IntV(IterationOf(e))
                  /\ \A j \in 1..Len(backnames) :
                        rec.consts[backnames[j]] = BackendArgsOf(e)[backnames[j]]
                  /\ \A j \in 1..Len(benchnames) :
                        rec.consts[benchnames[j]] = BenchArgsOf(e)[benchnames[j]]

\* The output paths execute() handed to benchmark.run, in call order.
RunPaths == [j \in 1..Len(Runs) |-> Runs[j].out]

\* C15: parse() iterates the same matrix as execute(): after an execute()
\* that returned, the paths parse() hands to the parser are, in order, the
\* paths execute() handed to benchmark.run, all of them when parse() returns
\* and the first of them when the parser raises.
C15_ParseSameMatrix ==
    (pc = "done" /\ plast \in {"returned", "raised"}) =>
        /\ Len(pcalls) <= Len(RunPaths)
        /\ pcalls = SubSeq(RunPaths, 1, Len(pcalls))
        /\ plast = "returned" => pcalls = RunPaths

\* execute() and then parse() returned, for a backend with two argument
\* sets and a benchmark with two argument sets run twice each.
C15_Witness ==
    /\ pc = "done"
    /\ plast = "returned"
    /\ Len(BackendArgSets(ex.backends[1])) = 2
    /\ Len(BenchArgSets(cfg.bench)) = 2
    /\ cfg.bench.iterations = 2
    /\ Len(pcalls) >= 8
    /\ Len(pcalls) = Len(Runs)

----------------------------------------------------------------------------
(* Flat files: util.dump_obj, util.retrieve_obj and the reads of            *)
(* graphing/_util.py. A file is the sequence of its lines.                  *)

\* The characters of a key.
NameText(k) ==
    CASE k = "x" -> <<"x">>
      [] k = "y" -> <<"y">>
      [] k = "_iter" -> <<"_", "i", "t", "e", "r">>

\* The keys of a persisted record, in the order the dict was filled.
KeyOrder == <<"x", "_iter">>

\* dump_obj(file, obj): one line "key=val" per item of obj
dump_obj(obj) ==
    LET keys == SelectSeq(KeyOrder, LAMBDA k : k \in DOMAIN obj)
    IN  [i \in 1..Len(keys) |-> NameText(keys[i]) \o <<"=">> \o Str(obj[keys[i]])]

\* The characters str.strip() removes that the model's texts may hold.
Whitespace == {" ", "\t", "\n", "\r"}

RECURSIVE strip(_)
\* str.strip()
strip(line) ==
    IF Len(line) = 0 THEN line
    ELSE IF line[1] \in Whitespace THEN strip(Tail(line))
    ELSE IF line[Len(line)] \in Whitespace THEN strip(SubSeq(line, 1, Len(line) - 1))
    ELSE line

\* retrieve_obj(file): obj[vals[0]] = vals[1] for vals = line.strip().split("=")
\* of every line; a line without "=" ends in exit(0).
retrieve_obj(lines) ==
    LET vals(i) == Split(strip(lines[i]), "=")
        bad == \E i \in 1..Len(lines) : Len(vals(i)) < 2
        last(key) == CHOOSE i \in 1..Len(lines) :
                        /\ vals(i)[1] = key
                        /\ \A j \in (i + 1)..Len(lines) : vals(j)[1] # key
    IN  [exited |-> bad,
         obj |-> IF bad THEN <<>>
                 ELSE [key \in {vals(i)[1] : i \in 1..Len(lines)} |-> vals(last(key))[2]]]

\* _is_good(benchmark, restriction)
_is_good_strict(benchmark, restriction) ==
    \A key \in DOMAIN restriction :
        /\ NameText(key) \in DOMAIN benchmark
        /\ benchmark[NameText(key)] = Str(restriction[key])
_is_good(benchmark, restriction) ==
    \A key \in DOMAIN restriction :
        NameText(key) \in DOMAIN benchmark =>
            benchmark[NameText(key)] = Str(restriction[key])

\* _retrieve_data_files(execution, restriction): `files` are the files of
\* execution.out in os.listdir order. The bare except around retrieve_obj
\* also catches the SystemExit of its exit(0): such a file is skipped.
\* error() ends the process when no record is kept.
_retrieve_data_files(files, restriction) ==
    LET objs == [i \in 1..Len(files) |-> retrieve_obj(files[i])]
        kept == SelectSeq(objs, LAMBDA o : ~o.exited /\ _is_good(o.obj, restriction))
    IN  [benchmarks |-> [i \in 1..Len(kept) |-> kept[i].obj],
         exited |-> Len(kept) = 0]

\* A raw output of Wrk.run of tests/plan.py: "{test} {x}", then the Latency line.
RawOutput == <<<<"5", " ", "0">>, <<"L", "a", "t", "e", "n", "c", "y", " ", "1">>>>

\* The values of the records and of the restrictions.
FlatValues == {IntV(0), IntV(1)}

\* The records that may be persisted: x and _iter, each present or not.
FlatRecords == UNION {[S -> FlatValues] : S \in SUBSET {"x", "_iter"}}

\* The restrictions: on x, which a record may lack, and on y, which every
\* record lacks.
Restrictions == UNION {[S -> FlatValues] : S \in SUBSET {"x", "y"}}

InitFlatRead ==
    /\ s_in \in [dir : {<<>>}, restriction : Restrictions]
    /\ s_out = <<>>
    /\ s_state = "ready"
    /\ IdleVariables
    /\ IdleCompose
    /\ IdleExecution

\* dump_obj(file, rec) for a new file of the out directory
DumpObj ==
    /\ s_state = "ready"
    /\ Len(s_in.dir) < MaxFlatFiles
    /\ \E rec \in FlatRecords :
          s_in' = [s_in EXCEPT !.dir = Append(@, [persisted |-> TRUE, rec |-> rec,
                                                   text |-> dump_obj(rec)])]
    /\ UNCHANGED <<s_out, s_state, varsV, varsC, varsE, varsP>>

\* benchmark.run writes its raw output in the out directory
WriteRawOutput ==
    /\ s_state = "ready"
    /\ Len(s_in.dir) < MaxFlatFiles
    /\ s_in' = [s_in EXCEPT !.dir = Append(@, [persisted |-> FALSE, rec |-> <<>>,
                                                 text |-> RawOutput])]
    /\ UNCHANGED <<s_out, s_state, varsV, varsC, varsE, varsP>>

\* _retrieve_data_files(execution, restriction)
RetrieveDataFiles ==
    /\ s_state = "ready"
    /\ LET r == _retrieve_data_files([i \in 1..Len(s_in.dir) |-> s_in.dir[i].text],
                                      s_in.restriction)
       IN  /\ s_out' = r.benchmarks
           /\ s_state' = IF r.exited THEN "exited" ELSE "returned"
    /\ UNCHANGED <<s_in, varsV, varsC, varsE, varsP>>

NextFlatRead == DumpObj \/ WriteRawOutput \/ RetrieveDataFiles

SpecFlatRead == InitFlatRead /\ [][NextFlatRead]_vars

\* A persisted record as the strings of its file.
Textual(rec) ==
    [t \in {NameText(k) : k \in DOMAIN rec} |->
        Str(rec[CHOOSE k \in DOMAIN rec : NameText(k) = t])]

\* A record passes the restriction: every restriction key present in the
\* record equals the restriction value as a string.
FlatMatches(rec) ==
    \A k \in DOMAIN s_in.restriction :
        k \in DOMAIN rec => Str(rec[k]) = Str(s_in.restriction[k])

\* The persisted records that pass the restriction, in directory order.
ExpectedFlat ==
    LET kept == SelectSeq(s_in.dir, LAMBDA e : e.persisted /\ FlatMatches(e.rec))
    IN  [i \in 1..Len(kept) |-> Textual(kept[i].rec)]

----------------------------------------------------------------------------
(* The relational sink: Execution.tables, Execution._add_sql_row and        *)
(* graphing/_util._retrieve_data_db.                                        *)

\* graphing/_util.py: `import sqlite3` is commented out, so the name sqlite3
\* is not defined in that module.
Sqlite3Imported == FALSE

\* Execution.tables is a plain method (no @property): `self.tables.items()`,
\* `execution.tables[tablename]` and `tablename not in execution.tables` are
\* applied to a bound method.
TablesIsMapping == FALSE

\* The instance attributes registerbenchmark's constructor sets.
BenchmarkAttrs == {"variables", "iterations", "name"}

\* inspect.getfullargspec(cls.run).args[2:] of Wrk
RunParams == <<"test", "x">>

\* The output names of a parser with fields(): those of tests/plan.py.
ParserFields == <<"low", "mid", "high">>

\* The outcome of a call: a raised exception, or a returned value.
Raised(error) == [raised |-> TRUE, error |-> error, value |-> <<>>]
Returned(value) == [raised |-> FALSE, error |-> "", value |-> value]

\* The field names of the model in the order of Python's string comparison.
FieldOrder ==
    <<"_backend", "_execution_name", "_iter", "_workload", "another_var", "high",
      "low", "mid", "myvar", "pass_me_in", "test", "tom_var", "x", "y">>

RECURSIVE SortedFrom(_, _)
SortedFrom(fields, i) ==
    IF i > Len(FieldOrder) THEN <<>>
    ELSE SelectSeq(fields, LAMBDA f : f = FieldOrder[i]) \o SortedFrom(fields, i + 1)

\* sorted(fields): a list, duplicates kept
sorted(fields) == SortedFrom(fields, 1)

\* "_b_".join(...)
path_sql(members) == Join(members, <<"_", "b", "_">>)

\* Backend.out_to_sql(path): "_b_".join(path.split("-"))
out_to_sql(path) == Join(Split(path, "-"), <<"_", "b", "_">>)

RECURSIVE NamedBackends(_)
\* _retrieve_named_backends: the arguments of init and of uninit of every
\* class of back_obj.backends (uninit takes none).
NamedBackends(members) ==
    IF Len(members) = 0 THEN <<>>
    ELSE StartParams(members[1]) \o NamedBackends(Tail(members))

\* The functions of a class registerbackend accepts: it requires start and
\* uninit, as the classes of tests/plan.py define.
ClassMethods(cls) == {"start", "uninit"}

\* The keys of _sb_registered_benchmarks: cls.__name__.lower()
RegisteredBenchmarkKeys == {<<"w", "r", "k">>}

\* One pass of the loop of Execution.tables() over back_obj:
\* _retrieve_named_backends(back_obj) reads back_obj.backends and cls.init,
\* _retrieve_named_benchmarks(self.bench.name) reads the registry,
\* then self.bench.parser and back_obj.path_sql are read.
TableOf(self, bench, back_obj) ==
    IF "backends" \notin back_obj.attrs THEN Raised("AttributeError")
    ELSE IF \E i \in 1..Len(back_obj.members) : "init" \notin ClassMethods(back_obj.members[i])
    THEN Raised("AttributeError")
    ELSE IF bench.name \notin RegisteredBenchmarkKeys THEN Raised("KeyError")
    ELSE IF "parser" \notin BenchmarkAttrs THEN Raised("AttributeError")
    ELSE IF "path_sql" \notin back_obj.attrs THEN Raised("AttributeError")
    ELSE Returned([name |-> Join(<<self.name, bench.name, path_sql(back_obj.members)>>,
                                 <<"_", "_">>),
                   fields |-> sorted(NamedBackends(back_obj.members) \o RunParams
                                         \o ParserFields \o _sb_rnames)])

\* Execution.tables(): self.backends is never empty (__init__ puts a
\* NullBackend in it), so the loop over self.backends is taken; the first
\* pass that raises ends the call.
tables(self, bench) ==
    LET T == [b \in 1..Len(self.backends) |-> TableOf(self, bench, self.backends[b])]
    IN  IF \E b \in 1..Len(T) : T[b].raised
        THEN T[CHOOSE b \in 1..Len(T) : T[b].raised /\ \A c \in 1..(b - 1) : ~T[c].raised]
        ELSE Returned([b \in 1..Len(T) |-> T[b].value])

\* The value _add_sql_row writes for a column: obj, then the backend
\* arguments, then the benchmark arguments, then the empty string.
ColumnValue(val, obj, bench_args, full_backend_args) ==
    IF val \in DOMAIN obj THEN Str(obj[val])
    ELSE IF val \in DOMAIN full_backend_args THEN Str(full_backend_args[val])
    ELSE IF val \in DOMAIN bench_args THEN Str(bench_args[val])
    ELSE <<>>

RECURSIVE SplitDunder(_)
\* s.split("__")
SplitDunder(s) ==
    IF \A i \in 1..(Len(s) - 1) : ~(s[i] = "_" /\ s[i + 1] = "_") THEN <<s>>
    ELSE LET i == CHOOSE i \in 1..(Len(s) - 1) :
                      /\ s[i] = "_" /\ s[i + 1] = "_"
                      /\ \A j \in 1..(i - 1) : ~(s[j] = "_" /\ s[j + 1] = "_")
         IN  <<SubSeq(s, 1, i - 1)>> \o SplitDunder(SubSeq(s, i + 2, Len(s)))

\* The tests of _add_sql_row on a table name against obj: execution name,
\* workload and, for a name of three parts, the backend path.
TableTakes(name_full, obj) ==
    LET name == SplitDunder(name_full)
    IN  /\ Str(obj["_execution_name"]) = name[1]
        /\ Str(obj["_workload"]) = name[2]
        /\ Len(name) = 3 => out_to_sql(Str(obj["_backend"])) = name[3]

\* Execution._add_sql_row(obj, bench_args, full_backend_args): the loop is
\* over self.tables.items(); the first table that takes obj gets one row,
\* and no table taking it raises.
_add_sql_row(self, bench, obj, bench_args, full_backend_args) ==
    IF ~TablesIsMapping THEN Raised("AttributeError")
    ELSE LET t == tables(self, bench)
         IN  IF t.raised THEN t
             ELSE IF \A i \in 1..Len(t.value) : ~TableTakes(t.value[i].name, obj)
             THEN Raised("Exception")
             ELSE LET i == CHOOSE i \in 1..Len(t.value) :
                               /\ TableTakes(t.value[i].name, obj)
                               /\ \A j \in 1..(i - 1) : ~TableTakes(t.value[j].name, obj)
                      name == SplitDunder(t.value[i].name)
                      o == IF Len(name) = 3
                           THEN DictSet(obj, "_backend",
                                        StrV(out_to_sql(Str(obj["_backend"]))))
                           ELSE obj
                      fields == t.value[i].fields
                  IN  Returned([table |-> t.value[i].name,
                                fields |-> fields,
                                vals |-> [c \in 1..Len(fields) |->
                                             ColumnValue(fields[c], o, bench_args,
                                                         full_backend_args)]])

\* The WHERE clause of _retrieve_data_db on one stored row.
RowSelected(row, new_restrict) ==
    \A k \in DOMAIN new_restrict : k \in DOMAIN row /\ row[k] = Str(new_restrict[k])

\* _retrieve_data_db(execution, restriction): the first statement is
\* sqlite3.connect(execution.out); execution.backends is never empty, so the
\* table is that of restriction["_backend"], looked up in execution.tables.
_retrieve_data_db(execution, bench, rows, restriction) ==
    IF ~Sqlite3Imported THEN Raised("NameError")
    ELSE IF "_backend" \notin DOMAIN restriction THEN Raised("KeyError")
    ELSE IF ~TablesIsMapping THEN Raised("TypeError")
    ELSE LET t == tables(execution, bench)
             sq_friendly == out_to_sql(Str(restriction["_backend"]))
             tablename == Join(<<execution.name, bench.name, sq_friendly>>, <<"_", "_">>)
         IN  IF t.raised THEN t
             ELSE IF \A i \in 1..Len(t.value) : t.value[i].name # tablename
             THEN Raised("Exception")
             ELSE LET i == CHOOSE i \in 1..Len(t.value) : t.value[i].name = tablename
                      columns == {t.value[i].fields[c] : c \in 1..Len(t.value[i].fields)}
                      new_restrict ==
                          [k \in ((DOMAIN restriction) \cap columns) \cup {"_backend"} |->
                              IF k = "_backend" THEN StrV(sq_friendly) ELSE restriction[k]]
                      data == SelectSeq(rows, LAMBDA row : RowSelected(row, new_restrict))
                  IN  IF Len(data) = 0 THEN Raised("Exception")
                      ELSE Returned(data)

----------------------------------------------------------------------------
(* The relational specification: an Execution whose out is a database file  *)
(* is constructed over a database that already holds rows; tables(),        *)
(* _add_sql_row and _retrieve_data_db are then called on it.                *)

\* The backend paths a record or a restriction may name, as out paths.
BackendPaths == {<<"T", "o", "m", "c", "a", "t", "-", "F", "F", "S">>, BCK}

\* The rows the table of the composed backend may hold: column to text.
DbRows ==
    {[k \in {"_backend", "x"} |->
         IF k = "_backend" THEN out_to_sql(Join(PlanMembers, <<"-">>)) ELSE Dec(n)] :
        n \in 0..1}

\* The contents of the database file when the program starts.
DbTables == UNION {[1..n -> DbRows] : n \in 0..MaxRows}

\* The restrictions of a read: a backend path, and x or not.
DbRestrictions ==
    {[k \in {"_backend"} |-> StrV(p)] : p \in BackendPaths}
        \cup {[k \in {"_backend", "x"} |-> IF k = "_backend" THEN StrV(p) ELSE v] :
                  p \in BackendPaths, v \in FlatValues}

\* The records given to _add_sql_row: the reserved names and one parser value.
SqlRecords(self, bench) ==
    {[k \in {"_execution_name", "_workload", "_backend", "_iter", "low"} |->
         IF k = "_execution_name" THEN StrV(self.name)
         ELSE IF k = "_workload" THEN StrV(bench.name)
         ELSE IF k = "_backend" THEN StrV(p)
         ELSE IF k = "_iter" THEN IntV(0)
         ELSE IntV(1)] : p \in BackendPaths}

InitSql ==
    /\ cfg \in [bench : {b \in BenchmarkObjects : b.iterations = 1},
                backends : BackendLists, out : {<<"o", ".", "d", "b">>}]
    /\ ex = [backends |-> <<>>, name |-> <<>>]
    /\ pc = "declared"
    /\ bi = 0
    /\ ai = 0
    /\ ci = 0
    /\ it = 0
    /\ calls = <<>>
    /\ mcalls = <<>>
    /\ cached = None
    /\ pcalls = <<>>
    /\ np = 0
    /\ plast = "none"
    /\ s_in \in [rows : DbTables]
    /\ s_out = <<>>
    /\ s_state = "ready"
    /\ IdleVariables
    /\ IdleCompose

\* self.tables() is called.
Tables ==
    /\ pc = "constructed"
    /\ s_out' = [args |-> <<>>, result |-> tables(ex, cfg.bench)]
    /\ s_state' = "tables"
    /\ UNCHANGED <<s_in, varsV, varsC, varsE, varsP>>

\* self._add_sql_row(obj, bench_args, full_backend_args) is called with the
\* arguments of a run; a row that was inserted is in the database.
AddSqlRow ==
    /\ pc = "constructed"
    /\ Len(s_in.rows) < MaxRows
    /\ \E obj \in SqlRecords(ex, cfg.bench),
          i \in 1..Len(BenchArgSets(cfg.bench)),
          j \in 1..Len(BackendArgSets(ex.backends[1])) :
          LET bench_args == BenchArgSets(cfg.bench)[i]
              full_backend_args == BackendArgSets(ex.backends[1])[j]
              r == _add_sql_row(ex, cfg.bench, obj, bench_args, full_backend_args)
          IN  /\ s_out' = [args |-> <<obj, bench_args, full_backend_args>>, result |-> r]
              /\ s_in' = IF r.raised THEN s_in
                         ELSE [rows |-> Append(s_in.rows,
                                   [k \in {r.value.fields[c] : c \in 1..Len(r.value.fields)} |->
                                       r.value.vals[CHOOSE c \in 1..Len(r.value.fields) :
                                                        r.value.fields[c] = k]])]
    /\ s_state' = "added"
    /\ UNCHANGED <<varsV, varsC, varsE, varsP>>

\* _retrieve_data_db(execution, restriction) is called.
RetrieveDataDb ==
    /\ pc = "constructed"
    /\ \E restriction \in DbRestrictions :
          s_out' = [args |-> <<restriction>>,
                    result |-> _retrieve_data_db(ex, cfg.bench, s_in.rows, restriction)]
    /\ s_state' = "read"
    /\ UNCHANGED <<s_in, varsV, varsC, varsE, varsP>>

NextSql == ExecutionInit \/ Tables \/ AddSqlRow \/ RetrieveDataDb

SpecSql == InitSql /\ [][NextSql]_vars

\* The rows a restriction selects: those of its backend's table whose every
\* restricted column holds the restriction's value as text.
MatchingRows(rows, restriction) ==
    SelectSeq(rows, LAMBDA row :
        /\ row["_backend"] = out_to_sql(Str(restriction["_backend"]))
        /\ \A k \in (DOMAIN restriction) \cap (DOMAIN row) :
              k # "_backend" => row[k] = Str(restriction[k]))

\* C18: a relational read never returns an empty list: with no matching row
\* it ends in an error, and with at least one matching row it returns
\* exactly the matching rows, each a mapping from column name to stored value.
C18_DbReadMatching ==
    s_state = "read" =>
        LET m == MatchingRows(s_in.rows, s_out.args[1])
        IN  IF Len(m) = 0 THEN s_out.result.raised
            ELSE s_out.result = Returned(m)

\* The table name the claims give a record or a backend.
ClaimedTableName(execution, workload, backend_sql) ==
    Join(<<execution, workload, backend_sql>>, <<"_", "_">>)

\* C19: persisting a record inserts exactly one row, into the table named by
\* the record's execution, workload and backend, and gives every declared
\* column the value from the record, else from the backend arguments, else
\* from the benchmark arguments, else the empty string.
C19_AddSqlRowInserts ==
    s_state = "added" =>
        LET obj == s_out.args[1]
            r == s_out.result
        IN  /\ ~r.raised
            /\ r.value.table = ClaimedTableName(Str(obj["_execution_name"]),
                                                Str(obj["_workload"]),
                                                out_to_sql(Str(obj["_backend"])))
            /\ \A c \in 1..Len(r.value.fields) :
                  r.value.vals[c] =
                      ColumnValue(r.value.fields[c],
                                  DictSet(obj, "_backend", StrV(out_to_sql(Str(obj["_backend"])))),
                                  s_out.args[2], s_out.args[3])

\* The columns the claim gives the table of a backend object: the sorted
\* union of the four kinds of names, each name once.
ClaimedColumns(back_obj) ==
    LET names == {NamedBackends(back_obj.members)[i] :
                      i \in 1..Len(NamedBackends(back_obj.members))}
                     \cup {RunParams[i] : i \in 1..Len(RunParams)}
                     \cup {ParserFields[i] : i \in 1..Len(ParserFields)}
                     \cup {_sb_rnames[i] : i \in 1..Len(_sb_rnames)}
    IN  SelectSeq(FieldOrder, LAMBDA f : f \in names)

\* C20: the schema has one table per backend of the execution, named
\* {execution}__{benchmark}__{backendPathSql}, whose columns are the sorted
\* union, without duplicates, of the backend argument names, the benchmark
\* argument names, the parser's field names and the four reserved names.
C20_TablesSchema ==
    s_state = "tables" =>
        LET r == s_out.result
        IN  /\ ~r.raised
            /\ Len(r.value) = Len(ex.backends)
            /\ \A b \in 1..Len(ex.backends) :
                  /\ r.value[b].name =
                         ClaimedTableName(ex.name, cfg.bench.name,
                                          path_sql(ex.backends[b].members))
                  /\ r.value[b].fields = ClaimedColumns(ex.backends[b])

----------------------------------------------------------------------------
(* Execution.clean on the out directory. A directory is [exists, files]:    *)
(* files maps the names of its files to their contents.                     *)

\* The files an out directory may hold when the program starts.
OldNames == [i \in 1..MaxFlatFiles |-> <<"o", "l", "d">> \o Dec(i)]
OldDirs ==
    {[exists |-> FALSE, files |-> <<>>]}
        \cup {[exists |-> TRUE, files |-> [n \in S |-> "old"]] :
                 S \in SUBSET {OldNames[i] : i \in 1..Len(OldNames)}}

\* Execution.clean(): _setup_tables() for a database file, whose loop header
\* is `for name, vals in self.tables.items()`; else os.mkdir(self.out), and
\* when that raises, exit(0) if os.listdir(self.out) is not empty.
clean_exit_on_existing(out, dir) ==
    IF is_sql_backed(out)
    THEN [state |-> IF TablesIsMapping THEN "returned" ELSE "raised", dir |-> dir]
    ELSE IF ~dir.exists
    THEN [state |-> "returned", dir |-> [exists |-> TRUE, files |-> <<>>]]
    ELSE [state |-> "exited", dir |-> dir]
clean(out, dir) ==
    IF is_sql_backed(out)
    THEN [state |-> IF TablesIsMapping THEN "returned" ELSE "raised", dir |-> dir]
    ELSE IF ~dir.exists
    THEN [state |-> "returned", dir |-> [exists |-> TRUE, files |-> <<>>]]
    ELSE IF DOMAIN dir.files # {}
    THEN [state |-> "exited", dir |-> dir]
    ELSE [state |-> "returned", dir |-> dir]

\* The contents of the out directory after the runs wrote their outputs.
WriteOutputs(dir, paths) ==
    [exists |-> dir.exists,
     files |-> [n \in (DOMAIN dir.files) \cup {Basename(paths[j]) : j \in 1..Len(paths)} |->
                   IF \E j \in 1..Len(paths) : Basename(paths[j]) = n THEN "run"
                   ELSE dir.files[n]]]

InitClean ==
    /\ cfg \in [bench : {b \in BenchmarkObjects : b.iterations = 1},
                backends : BackendLists, out : OutChoices]
    /\ ex = [backends |-> <<>>, name |-> <<>>]
    /\ pc = "declared"
    /\ bi = 0
    /\ ai = 0
    /\ ci = 0
    /\ it = 0
    /\ calls = <<>>
    /\ mcalls = <<>>
    /\ cached = None
    /\ pcalls = <<>>
    /\ np = 0
    /\ plast = "none"
    /\ \E d \in OldDirs : s_in = [before |-> d, dir |-> d]
    /\ s_out = <<>>
    /\ s_state = "ready"
    /\ IdleVariables
    /\ IdleCompose

\* execution.clean() is called, as execute_plan does before any execute().
Clean ==
    /\ pc = "constructed"
    /\ s_state = "ready"
    /\ LET r == clean(cfg.out, s_in.dir)
       IN  /\ s_in' = [s_in EXCEPT !.dir = r.dir]
           /\ s_state' = IF r.state = "returned" THEN "cleaned" ELSE r.state
    /\ UNCHANGED <<s_out, varsV, varsC, varsE, varsP>>

\* execution.execute() is called after clean() returned, and returns: every
\* run wrote its output file (in the out directory, for a directory).
ExecuteAfterClean ==
    /\ pc = "constructed"
    /\ s_state = "cleaned"
    /\ LET paths == parse(ex, cfg.bench, cfg.out, 0, IntV(1)).paths
       IN  /\ s_out' = paths
           /\ s_in' = IF is_sql_backed(cfg.out) THEN s_in
                      ELSE [s_in EXCEPT !.dir = WriteOutputs(s_in.dir, paths)]
    /\ s_state' = "executed"
    /\ UNCHANGED <<varsV, varsC, varsE, varsP>>

NextClean == ExecutionInit \/ Clean \/ ExecuteAfterClean

SpecClean == InitClean /\ [][NextClean]_vars

\* C21: on a directory target, clean() creates the directory when it does
\* not exist and returns when it exists and is empty; when it exists and
\* holds a file, clean() ends the program, no file of the directory is
\* deleted or modified, and no benchmark is run.
C21_CleanDirectory ==
    (s_state # "ready" /\ ~is_sql_backed(cfg.out)) =>
        IF ~s_in.before.exists
        THEN /\ s_state \in {"cleaned", "executed"}
             /\ s_in.dir.exists
             /\ s_state = "cleaned" => DOMAIN s_in.dir.files = {}
        ELSE IF DOMAIN s_in.before.files = {}
        THEN /\ s_state \in {"cleaned", "executed"}
             /\ s_state = "cleaned" => s_in.dir = s_in.before
        ELSE /\ s_state = "exited"
             /\ s_in.dir = s_in.before
             /\ s_out = <<>>

\* clean() ended the program on a directory that held two files.
C21_Witness ==
    /\ s_state = "exited"
    /\ ~is_sql_backed(cfg.out)
    /\ Cardinality(DOMAIN s_in.before.files) = 2
    /\ s_in.dir = s_in.before

----------------------------------------------------------------------------
(* Properties of Execution.name *)

\* C22: the name of every constructed Execution contains neither the
\* character "-" nor the character "/".
C22_NameWithoutSeparators ==
    pc \notin {"unused", "declared", "init_raised", "plan_parse"} =>
        \A i \in 1..Len(ex.name) : ex.name[i] \notin {"-", "/"}

----------------------------------------------------------------------------
(* registerbenchmark and registerbackend. A class is [name, methods,        *)
(* run_args]: the functions it defines and the number of parameters of run. *)

UpperCase == <<"B", "C", "K", "W">>
LowerCase == <<"b", "c", "k", "w">>

\* str.lower()
lower(name) ==
    [i \in 1..Len(name) |->
        IF \E u \in 1..Len(UpperCase) : UpperCase[u] = name[i]
        THEN LowerCase[CHOOSE u \in 1..Len(UpperCase) : UpperCase[u] = name[i]]
        ELSE name[i]]

\* The classes a plan may decorate.
ClassDecls ==
    {[name |-> n, methods |-> m, run_args |-> IF "run" \in m THEN a ELSE 0] :
        n \in {Wrk, BCK}, m \in SUBSET {"run", "start", "uninit"}, a \in 1..2}

\* The registries with the class decl under the key name.lower().
Registered(registry, decl) ==
    [k \in (DOMAIN registry) \cup {lower(decl.name)} |->
        IF k = lower(decl.name) THEN decl ELSE registry[k]]

\* registerbenchmark(cls): error() is sys.exit(-1).
registerbenchmark_unchecked(globs, cls) ==
    [exited |-> FALSE,
     globs |-> [globs EXCEPT !.benchmarks = Registered(globs.benchmarks, cls)]]
registerbenchmark(globs, cls) ==
    IF "run" \notin cls.methods THEN [exited |-> TRUE, globs |-> globs]
    ELSE IF ~(cls.run_args >= 2) THEN [exited |-> TRUE, globs |-> globs]
    ELSE [exited |-> FALSE,
          globs |-> [globs EXCEPT !.benchmarks = Registered(globs.benchmarks, cls)]]

\* registerbackend(cls): _check_names appends the parameters of start (those
\* of uninit: none) to _names_used, a list nothing reads; `names` is the set
\* of its elements.
registerbackend(globs, cls) ==
    IF "start" \notin cls.methods THEN [exited |-> TRUE, globs |-> globs]
    ELSE IF "uninit" \notin cls.methods THEN [exited |-> TRUE, globs |-> globs]
    ELSE [exited |-> FALSE,
          globs |-> [globs EXCEPT
                        !.names = @ \cup {StartParams(cls.name)[i] :
                                             i \in 1..Len(StartParams(cls.name))},
                        !.backends = Registered(globs.backends, cls)]]

InitRegister ==
    /\ s_in = [benchmarks |-> <<>>, backends |-> <<>>, names |-> {}]
    /\ s_out = <<>>
    /\ s_state = "ready"
    /\ IdleVariables
    /\ IdleCompose
    /\ IdleExecution

\* A class of the plan is decorated with @registerbenchmark.
RegisterBenchmark ==
    /\ s_state \in {"ready", "registered"}
    /\ \E cls \in ClassDecls :
          LET r == registerbenchmark(s_in, cls)
          IN  /\ s_in' = r.globs
              /\ s_out' = [op |-> "benchmark", cls |-> cls, before |-> s_in]
              /\ s_state' = IF r.exited THEN "exited" ELSE "registered"
    /\ UNCHANGED <<varsV, varsC, varsE, varsP>>

\* A class of the plan is decorated with @registerbackend.
RegisterBackend ==
    /\ s_state \in {"ready", "registered"}
    /\ \E cls \in ClassDecls :
          LET r == registerbackend(s_in, cls)
          IN  /\ s_in' = r.globs
              /\ s_out' = [op |-> "backend", cls |-> cls, before |-> s_in]
              /\ s_state' = IF r.exited THEN "exited" ELSE "registered"
    /\ UNCHANGED <<varsV, varsC, varsE, varsP>>

NextRegister == RegisterBenchmark \/ RegisterBackend

SpecRegister == InitRegister /\ [][NextRegister]_vars

\* The registry a call was about, before and after it.
RegistryOf(globs, op) == IF op = "benchmark" THEN globs.benchmarks ELSE globs.backends
OtherRegistryOf(globs, op) == IF op = "benchmark" THEN globs.backends ELSE globs.benchmarks

\* C23: a class is added to the registry, under its lower-cased name, only
\* when it has the required operations (a run of at least 2 parameters for
\* a benchmark; start and uninit for a backend); a class lacking them is
\* rejected with an error and both registries are as before the call.
C23_RegisterRequiresOperations ==
    s_state # "ready" =>
        LET cls == s_out.cls
            has == IF s_out.op = "benchmark"
                   THEN "run" \in cls.methods /\ cls.run_args >= 2
                   ELSE {"start", "uninit"} \subseteq cls.methods
            before == RegistryOf(s_out.before, s_out.op)
            after == RegistryOf(s_in, s_out.op)
        IN  /\ OtherRegistryOf(s_in, s_out.op) = OtherRegistryOf(s_out.before, s_out.op)
            /\ IF has
               THEN /\ s_state = "registered"
                    /\ DOMAIN after = (DOMAIN before) \cup {lower(cls.name)}
                    /\ after[lower(cls.name)] = cls
                    /\ \A k \in DOMAIN before : k # lower(cls.name) => after[k] = before[k]
               ELSE /\ s_state = "exited"
                    /\ after = before

\* A benchmark class whose run takes one parameter was rejected after
\* another class had been registered.
C23_Witness ==
    /\ s_state = "exited"
    /\ s_out.op = "benchmark"
    /\ "run" \in s_out.cls.methods
    /\ s_out.cls.run_args = 1
    /\ DOMAIN s_in.benchmarks # {}
    /\ s_in = s_out.before

----------------------------------------------------------------------------
(* The round trip of a record through dump_obj and retrieve_obj. *)

MaxText == 2     \* longest value of a record of the round trip

\* The texts of at most n characters over the letter a and the space.
TextsUpTo(n) == UNION {[1..k -> {"a", " "}] : k \in 0..n}

\* The records written: x and _iter, each present or not, with str values
\* that hold neither "=" nor a newline.
TextRecords ==
    UNION {[S -> {StrV(t) : t \in TextsUpTo(MaxText)}] : S \in SUBSET {"x", "_iter"}}

InitRoundTrip ==
    /\ s_in \in [rec : TextRecords]
    /\ s_out = [file |-> <<>>, obj |-> <<>>]
    /\ s_state = "ready"
    /\ IdleVariables
    /\ IdleCompose
    /\ IdleExecution

\* dump_obj(file, rec)
DumpRecord ==
    /\ s_state = "ready"
    /\ s_out' = [s_out EXCEPT !.file = dump_obj(s_in.rec)]
    /\ s_state' = "written"
    /\ UNCHANGED <<s_in, varsV, varsC, varsE, varsP>>

\* retrieve_obj(file) on the file dump_obj wrote
RetrieveRecord ==
    /\ s_state = "written"
    /\ LET r == retrieve_obj(s_out.file)
       IN  /\ s_out' = [s_out EXCEPT !.obj = r.obj]
           /\ s_state' = IF r.exited THEN "exited" ELSE "read"
    /\ UNCHANGED <<s_in, varsV, varsC, varsE, varsP>>

NextRoundTrip == DumpRecord \/ RetrieveRecord

SpecRoundTrip == InitRoundTrip /\ [][NextRoundTrip]_vars

\* C24: for a record whose keys and values hold no "=" and no newline,
\* retrieve_obj on the file dump_obj wrote returns a map with the same keys,
\* each mapped to the string form of the value written.
C24_RoundTrip ==
    s_state \in {"read", "exited"} =>
        /\ s_state = "read"
        /\ s_out.obj = Textual(s_in.rec)

----------------------------------------------------------------------------
(* core.execute_plan(plan, args): the plan file is imported, which runs its *)
(* plan_execution and plan_parse calls, then the three loops over           *)
(* _sb_executions are made.                                                 *)

MaxPlan == 3     \* most plan_execution / plan_parse calls of a plan file

\* globals.py: `_sb_executions = {}`, a dict; plan_execution and plan_parse
\* call _sb_executions.append(...).
ExecutionsIsList == FALSE

\* The calls of a plan file: plan_execution or plan_parse, with an out that
\* is a directory or a database file.
PlanCalls == [kind : {"plan_execution", "plan_parse"}, out : OutChoices]
Plans == UNION {[1..n -> PlanCalls] : n \in 0..MaxPlan}

\* import_plan: the plan's calls run in order; each constructs its object
\* and then appends it to _sb_executions.
import_plan(plan) ==
    IF Len(plan) = 0 THEN [raised |-> FALSE, executions |-> <<>>]
    ELSE IF ~ExecutionsIsList THEN [raised |-> TRUE, executions |-> <<>>]
    ELSE [raised |-> FALSE, executions |-> plan]

\* for execution in _sb_executions: execution.op(); f is the call that
\* raises or exits (0: none does).
LoopCalls(executions, op, f) ==
    [i \in 1..(IF f # 0 THEN f ELSE Len(executions)) |-> [op |-> op, i |-> i]]

InitPlan ==
    /\ s_in \in [plan : Plans, no_exec : BOOLEAN]
    /\ s_out = [executions |-> <<>>, log |-> <<>>]
    /\ s_state = "start"
    /\ IdleVariables
    /\ IdleCompose
    /\ IdleExecution

\* import_plan(plan, globals())
ImportPlan ==
    /\ s_state = "start"
    /\ LET r == import_plan(s_in.plan)
       IN  /\ s_out' = [s_out EXCEPT !.executions = r.executions]
           /\ s_state' = IF r.raised THEN "import_raised" ELSE "imported"
    /\ UNCHANGED <<s_in, varsV, varsC, varsE, varsP>>

\* if not args.no_exec: for execution in _sb_executions: execution.clean()
CleanAll ==
    /\ s_state = "imported"
    /\ IF s_in.no_exec
       THEN /\ s_state' = "cleaned"
            /\ s_out' = s_out
       ELSE \E f \in 0..Len(s_out.executions) :
               /\ s_out' = [s_out EXCEPT !.log = @ \o LoopCalls(s_out.executions, "clean", f)]
               /\ s_state' = IF f # 0 THEN "loop_raised" ELSE "cleaned"
    /\ UNCHANGED <<s_in, varsV, varsC, varsE, varsP>>

\* if not args.no_exec: for execution in _sb_executions: execution.execute()
ExecuteAll ==
    /\ s_state = "cleaned"
    /\ IF s_in.no_exec
       THEN /\ s_state' = "executed"
            /\ s_out' = s_out
       ELSE \E f \in 0..Len(s_out.executions) :
               /\ s_out' = [s_out EXCEPT !.log = @ \o LoopCalls(s_out.executions, "execute", f)]
               /\ s_state' = IF f # 0 THEN "loop_raised" ELSE "executed"
    /\ UNCHANGED <<s_in, varsV, varsC, varsE, varsP>>

\* for execution in _sb_executions: execution.parse()
ParseAll ==
    /\ s_state = "executed"
    /\ \E f \in 0..Len(s_out.executions) :
          /\ s_out' = [s_out EXCEPT !.log = @ \o LoopCalls(s_out.executions, "parse", f)]
          /\ s_state' = IF f # 0 THEN "loop_raised" ELSE "parsed"
    /\ UNCHANGED <<s_in, varsV, varsC, varsE, varsP>>

NextPlan == ImportPlan \/ CleanAll \/ ExecuteAll \/ ParseAll

SpecPlan == InitPlan /\ [][NextPlan]_vars

\* The number of calls of op on the i-th planned execution.
CallsOf(op, i) ==
    Cardinality({p \in 1..Len(s_out.log) : s_out.log[p] = [op |-> op, i |-> i]})

\* C25: execute_plan calls clean() on every planned execution before any
\* execute(), and execute() on every planned execution before any parse();
\* with no_exec, no clean() and no execute() is called, but parse() is
\* called once for every planned execution.
C25_PlanPhases ==
    /\ \A p, q \in 1..Len(s_out.log) :
          p < q => /\ ~(s_out.log[p].op = "execute" /\ s_out.log[q].op = "clean")
                   /\ ~(s_out.log[p].op = "parse" /\ s_out.log[q].op # "parse")
    /\ s_in.no_exec => \A p \in 1..Len(s_out.log) : s_out.log[p].op = "parse"
    /\ s_state \in {"parsed", "import_raised"} =>
          \A i \in 1..Len(s_in.plan) :
              /\ CallsOf("parse", i) = 1
              /\ ~s_in.no_exec => CallsOf("clean", i) = 1 /\ CallsOf("execute", i) = 1

----------------------------------------------------------------------------
(* Properties of the backends execute() holds started. *)

\* The backend argument sets started, and stopped, by the first n calls.
StartedBy(n) == Cardinality({j \in 1..n : calls[j].op = "start" /\ ~calls[j].raised})
StoppedBy(n) == Cardinality({j \in 1..n : calls[j].op = "uninit" /\ ~calls[j].raised})

\* C26: at most one backend argument set is started at any time: start is
\* never invoked while a backend that was started has not been stopped.
C26_OneBackendRunning ==
    /\ StartedBy(Len(calls)) - StoppedBy(Len(calls)) \in {0, 1}
    /\ \A j \in 1..Len(calls) :
          calls[j].op = "start" => StartedBy(j - 1) = StoppedBy(j - 1)

\* execute() started a second backend argument set after it stopped the
\* first, and runs were made for both.
C26_Witness ==
    /\ StartedBy(Len(calls)) = 2
    /\ StoppedBy(Len(calls)) = 1
    /\ Len(Runs) >= 2
    /\ calls[Len(calls)].op = "run"

\* C27: when execute() ends, by returning or because a benchmark.run
\* failed, every backend argument set whose start succeeded has had its
\* uninit invoked exactly once.
C27_StoppedWhenExecuteEnds ==
    (\/ pc = "done"
     \/ /\ pc = "raised"
        /\ Len(calls) > 0
        /\ calls[Len(calls)].op = "run")
    => \A j \in 1..Len(calls) :
          (calls[j].op = "start" /\ ~calls[j].raised) =>
              Cardinality({h \in 1..Len(calls) :
                              /\ calls[h].op = "uninit"
                              /\ calls[h].at = calls[j].at}) = 1

\* C28: if the start of member k of a composed backend fails, no member
\* after k is started for that argument set and no member's uninit is
\* invoked for it: the members before k were started and stay started.
C28_FailedStartLeavesMembersStarted ==
    \A i \in 1..Len(mcalls) :
        (mcalls[i].op = "start" /\ mcalls[i].raised) =>
            /\ i = Len(mcalls)
            /\ pc = "raised"
            /\ LET members == ex.backends[bi].members
                   k == CHOOSE k \in 1..Len(members) : members[k] = mcalls[i].cls
               IN  /\ i >= k
                   /\ \A m \in 1..(k - 1) :
                         /\ mcalls[i - k + m].op = "start"
                         /\ mcalls[i - k + m].cls = members[m]
                         /\ ~mcalls[i - k + m].raised

\* The start of the second member of a composition failed after the first
\* member was started.
C28_Witness ==
    /\ pc = "raised"
    /\ Len(mcalls) >= 2
    /\ mcalls[Len(mcalls)].op = "start"
    /\ mcalls[Len(mcalls)].raised
    /\ mcalls[Len(mcalls)].cls = ex.backends[bi].members[2]
    /\ mcalls[Len(mcalls) - 1].op = "start"
    /\ ~mcalls[Len(mcalls) - 1].raised

----------------------------------------------------------------------------
(* Execution.out_file over the matrix of an Execution whose varying values  *)
(* are strings.                                                             *)

\* The str values a plan may sweep: some hold the character "_".
TextValues == <<StrV(<<"1">>), StrV(<<"1", "_", "2">>), StrV(<<"2", "_", "1">>)>>

\* The lists of up to MaxRange pairwise different values of TextValues.
TextRanges ==
    UNION {{[i \in 1..n |-> TextValues[p[i]]] :
               p \in {q \in [1..n -> 1..Len(TextValues)] :
                         \A i, j \in 1..n : i # j => q[i] # q[j]}} :
              n \in 1..MaxRange}

\* Wrk sweeping x, or test and x, over such lists.
TextBenchmarks ==
    {Benchmark(Wrk, <<>>, var, n) :
        var \in {<< <<"x", r>> >> : r \in TextRanges}
                  \cup {<< <<"test", r1>>, <<"x", r2>> >> : r1, r2 \in TextRanges},
        n \in 1..MaxIter}

\* The composition of tests/plan.py, sweeping nothing or pass_me_in.
TextBackends ==
    {ComposedBackend(PlanMembers, <<>>, <<>>)}
        \cup {ComposedBackend(PlanMembers, <<>>, << <<"pass_me_in", r>> >>) :
                 r \in {t \in TextRanges : Len(t) = 1}}

InitOutFile ==
    /\ cfg \in [bench : TextBenchmarks, backends : {<<b>> : b \in TextBackends},
                out : {<<"o", "u", "t">>}]
    /\ ex = [backends |-> <<>>, name |-> <<>>]
    /\ pc = "declared"
    /\ bi = 0
    /\ ai = 0
    /\ ci = 0
    /\ it = 0
    /\ calls = <<>>
    /\ mcalls = <<>>
    /\ cached = None
    /\ pcalls = <<>>
    /\ np = 0
    /\ plast = "none"
    /\ s_in = <<>>
    /\ s_out = <<>>
    /\ s_state = "ready"
    /\ IdleVariables
    /\ IdleCompose

\* self.out_file(back, back_args, ba, iteration) for every cell of the
\* matrix, in the order of the loops of execute().
OutFiles ==
    /\ pc = "constructed"
    /\ s_state = "ready"
    /\ LET cells == ParseCells(ex, cfg.bench, 1)
           k == cfg.bench.iterations
       IN  s_out' = [j \in 1..(Len(cells) * k) |->
                        LET cell == cells[((j - 1) \div k) + 1]
                            back == ex.backends[cell.b]
                        IN  [cell |-> <<cell.b, cell.a, cell.c, (j - 1) % k>>,
                             path |-> out_file(cfg.bench, cfg.out, back,
                                               BackendArgSets(back)[cell.a],
                                               BenchArgSets(cfg.bench)[cell.c],
                                               (j - 1) % k)]]
    /\ s_state' = "named"
    /\ UNCHANGED <<s_in, varsV, varsC, varsE, varsP>>

NextOutFile == ExecutionInit \/ OutFiles

SpecOutFile == InitOutFile /\ [][NextOutFile]_vars

\* C29: within one Execution, out_file gives distinct cells (backend,
\* backend argument set, benchmark argument set, iteration) distinct
\* names, also when the text of a varying value holds "_".
C29_OutFileInjective ==
    s_state = "named" =>
        \A p, q \in 1..Len(s_out) :
            s_out[p].cell # s_out[q].cell => s_out[p].path # s_out[q].path

----------------------------------------------------------------------------
(* The objects of Variables.produce_args(). The heap is the sequence of the *)
(* dict objects: heap[1] is self.consts, and a reference is an index of it. *)

\* produce_args(): every returned map is a new object, dict(self.consts),
\* filled with the values of one combination.
produce_args_sharing_consts(heap, var) ==
    IF Len(var) = 0 THEN [heap |-> heap, refs |-> <<1>>]
    ELSE LET args == produce_args(Variables(heap[1], var))
         IN  [heap |-> heap \o args, refs |-> [i \in 1..Len(args) |-> Len(heap) + i]]
produce_args_objects(heap, var) ==
    LET args == produce_args(Variables(heap[1], var))
    IN  [heap |-> heap \o args, refs |-> [i \in 1..Len(args) |-> Len(heap) + i]]

\* The keys and the value a caller writes into a returned map.
WrittenKeys == {"x", "c", "z"}
WrittenValue == IntV(9)

InitCopy ==
    /\ s_in \in {i \in [consts : ConstDicts({"c", "x"}), var : VarLists({"x", "y"}, MaxVars)] :
                    ~VariablesRaises(i.consts, i.var)}
    /\ s_out = [heap |-> <<s_in.consts>>, results |-> <<>>, modified |-> 0]
    /\ s_state = "ready"
    /\ IdleVariables
    /\ IdleCompose
    /\ IdleExecution

\* self.produce_args() is called, a first time and again after a returned
\* map was written.
ProduceArgsObjects ==
    /\ s_state \in {"ready", "modified"}
    /\ LET r == produce_args_objects(s_out.heap, s_in.var)
       IN  s_out' = [s_out EXCEPT !.heap = r.heap, !.results = Append(@, r.refs)]
    /\ s_state' = IF s_state = "ready" THEN "produced" ELSE "produced_again"
    /\ UNCHANGED <<s_in, varsV, varsC, varsE, varsP>>

\* The caller writes a key of one of the returned maps: args[i][k] = v
ModifyReturned ==
    /\ s_state = "produced"
    /\ \E i \in 1..Len(s_out.results[1]), k \in WrittenKeys :
          LET ref == s_out.results[1][i]
          IN  s_out' = [s_out EXCEPT !.heap[ref] = DictSet(@, k, WrittenValue),
                                     !.modified = ref]
    /\ s_state' = "modified"
    /\ UNCHANGED <<s_in, varsV, varsC, varsE, varsP>>

NextCopy == ProduceArgsObjects \/ ModifyReturned

SpecCopy == InitCopy /\ [][NextCopy]_vars

\* C30: produce_args() leaves consts (and var, which it only reads)
\* unchanged and returns fresh maps: writing one returned map changes
\* neither consts, nor another returned map, nor what a later
\* produce_args() returns.
C30_ProduceArgsFresh ==
    LET args == produce_args(Variables(s_in.consts, s_in.var))
    IN  /\ s_out.heap[1] = s_in.consts
        /\ \A c \in 1..Len(s_out.results) :
              /\ Len(s_out.results[c]) = Len(args)
              /\ \A i \in 1..Len(args) :
                    /\ s_out.results[c][i] # 1
                    /\ s_out.results[c][i] # s_out.modified =>
                          s_out.heap[s_out.results[c][i]] = args[i]

\* A returned map was written, which changed it, and produce_args() was
\* called again.
C30_Witness ==
    /\ s_state = "produced_again"
    /\ s_out.modified # 0
    /\ \E i \in 1..Len(s_out.results[1]) :
          /\ s_out.results[1][i] = s_out.modified
          /\ s_out.heap[s_out.modified] # s_out.heap[s_out.results[2][i]]

====
